---- MODULE Spec2Model ----
(***************************************************************************)
(* A model of the client portal page (ml-service/client-portal/app/       *)
(* page.tsx, the variant of lines 297-691): the input matrix kept sized to *)
(* rows x featureCols.length, the network calls the page issues and the    *)
(* state their responses write, and the KPI aggregation over the usage-log *)
(* snapshot.                                                               *)
(*                                                                         *)
(* Representation.  A JavaScript string is a sequence of one-character     *)
(* strings.  A cell value is an integer number of thousandths (1.5 is      *)
(* 1500).  A nullable value is a sequence of length at most one: None is   *)
(* null, Some(x) is x.  NaN is a number outside every range the model      *)
(* uses.                                                                   *)
(***************************************************************************)
EXTENDS Integers, Sequences, FiniteSets, TLC

VARIABLES
    rows,          \* page.tsx:310  the row-count setting
    featureCols,   \* page.tsx:309  the ordered column names
    inputs,        \* page.tsx:311  the input matrix
    outputs,       \* page.tsx:316  the last stored prediction outputs, or null
    health,        \* page.tsx:305  the last /health response, or null
    who,           \* page.tsx:306  the last /whoami response, or null
    csvResultUrl,  \* page.tsx:319  the download link of the last CSV result, or null
    csvPreview,    \* page.tsx:320  the parsed first lines of a CSV result
    metrics,       \* page.tsx:323  the usage-log snapshot
    derived,       \* page.tsx:433  the memo over the snapshot
    sb,            \* page.tsx:299  the auth/database client, or null
    token,         \* page.tsx:300  the session's bearer token, or null
    envMissing,    \* page.tsx:335  whether the backend URL or key is not configured
    calls,         \* the calls in flight: issued, not yet resolved
    issued,        \* how many calls the user's actions have issued
    surfaced,      \* what the last event showed the user: an alert, an
                   \* unhandled rejection, or nothing
    lastOp,        \* history: the name of the last event handled
    lastArg,       \* history: what that event carried (the text typed, the cell
                   \* and value edited, the call resolved)
    before,        \* history: the matrix as it stood before the last Rows edit,
                   \* kept through a Feature-columns edit right after it
    resolved,      \* history: the predict responses applied, in the order applied
    result         \* the value the last evaluation of a pure function returned

matVars == <<rows, featureCols, inputs>>
resVars == <<outputs, health, who, csvResultUrl, csvPreview, metrics, derived>>
authVars == <<sb, token, envMissing>>
netVars == <<calls, issued>>
pageVars == <<matVars, resVars, authVars>>
hist == <<lastOp, lastArg, before, resolved, result>>
vars == <<pageVars, netVars, surfaced, hist>>

----------------------------------------------------------------------------
(* Bounds of the model. *)

\* The largest single digit a Rows edit types.
MaxRowDigit == 2
\* The longest text a Feature-columns edit leaves in the field.
MaxColText == 2
\* The number of calls the user's actions issue.
MaxCalls == 2
\* The largest number of records in a usage-log snapshot.
MaxRecords == 4
\* The longest array a percentile is taken of.
MaxValues == 5
\* The largest number of records in a snapshot that spans several days.
MaxDayRecords == 3
\* The longest of the short CSV result texts.
MaxCsvText == 4
\* The largest number of outputs in a prediction response of any length.
MaxOutputs == 4
\* The largest number of getSupabase calls made in one runtime.
MaxGets == 3
\* The longest list the index of the percentile is computed for.
MaxRank == 24
\* The number of lines of the long CSV result text.
MaxCsvLines == 30

----------------------------------------------------------------------------
(* Values. *)

None == <<>>
Some(x) == <<x>>

NaN == 0 - 2147483647

\* The value of reading past the end of an array.
Undefined == 0 - 2147483646

\* The empty string shown in the place of a missing number.
Blank == 0 - 2147483645

\* The characters String.prototype.trim and parseInt strip.
Whitespace == {" ", "\t", "\n", "\r"}

Digits == <<"0", "1", "2", "3", "4", "5", "6", "7", "8", "9">>

IsDigit(c) == \E d \in 1..Len(Digits) : Digits[d] = c

DigitVal(c) == (CHOOSE d \in 1..Len(Digits) : Digits[d] = c) - 1

\* The sequences of length at most n over the members of alphabet.
RECURSIVE SeqsUpTo(_, _)
SeqsUpTo(alphabet, n) ==
    IF n = 0 THEN {<<>>}
    ELSE LET shorter == SeqsUpTo(alphabet, n - 1)
         IN  shorter \cup {Append(t, c) : t \in shorter, c \in alphabet}

----------------------------------------------------------------------------
(* parseInt(text, 10), page.tsx:556.  Leading blanks are skipped, a sign is *)
(* read, then the longest run of digits; no digit at all gives NaN.         *)

RECURSIVE SkipBlanks(_)
SkipBlanks(s) ==
    IF s # <<>> /\ Head(s) \in Whitespace THEN SkipBlanks(Tail(s)) ELSE s

RECURSIVE DigitRun(_, _)
DigitRun(s, acc) ==
    IF s # <<>> /\ IsDigit(Head(s))
    THEN DigitRun(Tail(s), acc * 10 + DigitVal(Head(s)))
    ELSE acc

parseInt(text) ==
    LET s    == SkipBlanks(text)
        neg  == s # <<>> /\ Head(s) = "-"
        body == IF s # <<>> /\ Head(s) \in {"-", "+"} THEN Tail(s) ELSE s
    IN  IF body = <<>> \/ ~IsDigit(Head(body)) THEN NaN
        ELSE IF neg THEN 0 - DigitRun(body, 0) ELSE DigitRun(body, 0)

\* e.target.value || "1": the empty text reads as "1".
RowsOfText(text) == parseInt(IF text = <<>> THEN <<"1">> ELSE text)

\* Array.from({ length: n }): ToLength takes NaN and negatives to 0.
ToLength(n) == IF n = NaN \/ n < 0 THEN 0 ELSE n

----------------------------------------------------------------------------
(* The column parser, page.tsx:565-568:                                     *)
(*     value.split(",").map((s) => s.trim()).filter(Boolean)                *)

\* split(","): the segments between commas; a text without a comma is one
\* segment, the empty text one empty segment.
RECURSIVE SplitComma(_, _)
SplitComma(s, cur) ==
    IF s = <<>> THEN <<cur>>
    ELSE IF Head(s) = "," THEN <<cur>> \o SplitComma(Tail(s), <<>>)
    ELSE SplitComma(Tail(s), Append(cur, Head(s)))

RECURSIVE TrimEnd(_)
TrimEnd(s) ==
    IF s # <<>> /\ s[Len(s)] \in Whitespace
    THEN TrimEnd(SubSeq(s, 1, Len(s) - 1))
    ELSE s

\* A trim that leaves the blanks in front.
trimRight(s) == TrimEnd(s)

trim(s) == TrimEnd(SkipBlanks(s))

\* filter(Boolean): the empty string is falsy and is dropped.
RECURSIVE FilterNonEmpty(_)
FilterNonEmpty(segs) ==
    IF segs = <<>> THEN <<>>
    ELSE IF Head(segs) = <<>> THEN FilterNonEmpty(Tail(segs))
    ELSE <<Head(segs)>> \o FilterNonEmpty(Tail(segs))

\* A parser that forgets to trim the names.
ParseColumnsUntrimmed(text) == FilterNonEmpty(SplitComma(text, <<>>))

ParseColumns(text) ==
    LET segs == SplitComma(text, <<>>)
    IN  FilterNonEmpty([k \in 1..Len(segs) |-> trim(segs[k])])

\* page.tsx:562  featureCols.join(","), the text the field shows.
RECURSIVE JoinComma(_)
JoinComma(cols) ==
    IF cols = <<>> THEN <<>>
    ELSE IF Len(cols) = 1 THEN cols[1]
    ELSE cols[1] \o <<",">> \o JoinComma(Tail(cols))

----------------------------------------------------------------------------
(* The matrix. *)

\* A missing cell that takes the value of the first cell.
CellOrFirst(prev, i, j) ==
    IF i <= Len(prev) /\ j <= Len(prev[i]) THEN prev[i][j]
    ELSE IF prev # <<>> /\ prev[1] # <<>> THEN prev[1][1] ELSE 0

\* prev[i]?.[j] ?? 0 with i, j counted from 1.
CellOr0(prev, i, j) ==
    IF i <= Len(prev) /\ j <= Len(prev[i]) THEN prev[i][j] ELSE 0

\* A sizing effect that forgets the old cells.
ReshapeForgets(prev, r, c) ==
    [i \in 1..ToLength(r) |-> [j \in 1..ToLength(c) |-> 0]]

\* page.tsx:327-331, the updater of the sizing effect.
Reshape(prev, r, c) ==
    [i \in 1..ToLength(r) |-> [j \in 1..ToLength(c) |-> CellOr0(prev, i, j)]]

\* The effect of page.tsx:326-332 runs when rows or featureCols.length differ
\* from the previous render's (Object.is: NaN equals NaN).
SizedInputs(prev, r, c, r0, c0) ==
    IF r # r0 \/ c # c0 THEN Reshape(prev, r, c) ELSE prev

\* Array(n).fill(0), three times: page.tsx:374-378.
ZeroMatrix(r, c) == [i \in 1..r |-> [j \in 1..c |-> 0]]

\* page.tsx:24-26 and 727-729, the sizing effect of the other two variants:
\* Array.from({length: rows}, () => Array(featureCols.length).fill(0)), run
\* when rows or featureCols.length differ from the previous render's.
ZeroFilledInputs(prev, r, c, r0, c0) ==
    IF r # r0 \/ c # c0 THEN ZeroMatrix(ToLength(r), c) ELSE prev

F1 == <<"f", "1">>
F2 == <<"f", "2">>
F3 == <<"f", "3">>

\* page.tsx:309
DefaultFeatureCols == <<F1, F2, F3>>

\* page.tsx:310 and 373
DefaultRows == 3

\* page.tsx:553-554  the range the Rows input declares.
RowsMin == 1
RowsMax == 100

----------------------------------------------------------------------------
(* The KPIs, page.tsx:433-444.  A latency is a whole number of milliseconds, *)
(* a cost a whole number of thousandths of a dollar, so that sums are exact. *)
(* A quantile q is the fraction q.num / q.den.  The page only uses 0.95, and *)
(* for every length up to the 1000 records the query returns,                *)
(* Math.floor((n - 1) * 0.95) in doubles is ((n - 1) * 95) \div 100.         *)

\* Where sort((a, b) => a - b) puts x in an ascending array.
RECURSIVE Insert(_, _)
Insert(x, s) ==
    IF s = <<>> THEN <<x>>
    ELSE IF x < Head(s) THEN <<x>> \o s
    ELSE <<Head(s)>> \o Insert(x, Tail(s))

\* [...arr].sort((a, b) => a - b), page.tsx:437
RECURSIVE SortAsc(_)
SortAsc(arr) == IF arr = <<>> THEN <<>> ELSE Insert(Head(arr), SortAsc(Tail(arr)))

\* s[idx] with idx counted from 0: reading outside the array gives undefined.
At(s, idx) == IF idx + 1 \in 1..Len(s) THEN s[idx + 1] ELSE Undefined

\* A percentile that takes the index from the length, not the length less one.
pOfLength(arr, q) ==
    IF arr = <<>> THEN 0
    ELSE LET s == SortAsc(arr)
         IN  At(s, (Len(s) * q.num) \div q.den)

\* A percentile that rounds its index up.
pCeil(arr, q) ==
    IF arr = <<>> THEN 0
    ELSE LET s == SortAsc(arr)
         IN  At(s, ((Len(s) - 1) * q.num + q.den - 1) \div q.den)

\* page.tsx:438  Math.floor((s.length - 1) * q) for a list of n values.
RankIndex(n, q) == ((n - 1) * q.num) \div q.den

\* page.tsx:435-440
p(arr, q) ==
    IF arr = <<>> THEN 0
    ELSE LET s   == SortAsc(arr)
             idx == ((Len(s) - 1) * q.num) \div q.den
         IN  At(s, idx)

\* Number(x ?? 0) of a field that is null or absent (None) or a number.
NumberOr0(x) == IF x = None THEN 0 ELSE x[1]

\* metrics.reduce((s, r) => s + Number(r.cost_usd ?? 0), 0), page.tsx:442
RECURSIVE SumCost(_)
SumCost(ms) ==
    IF ms = <<>> THEN 0 ELSE NumberOr0(Head(ms).cost_usd) + SumCost(Tail(ms))

\* page.tsx:441 and 461: the quantile of the p95 tile.
Q95 == [num |-> 95, den |-> 100]

\* KPIs that leave the records without a latency out of the percentile.
RECURSIVE Measured(_)
Measured(ms) ==
    IF ms = <<>> THEN <<>>
    ELSE IF Head(ms).latency_ms = None THEN Measured(Tail(ms))
    ELSE <<Head(ms).latency_ms[1]>> \o Measured(Tail(ms))

KpisOfMeasured(ms) ==
    IF Len(ms) = 0 THEN [p95All |-> 0, total |-> 0, totalCost |-> 0]
    ELSE [p95All    |-> p(Measured(ms), Q95),
          total     |-> Len(ms),
          totalCost |-> SumCost(ms)]

\* page.tsx:433-444  the memo over the snapshot.
Kpis(ms) ==
    IF Len(ms) = 0 THEN [p95All |-> 0, total |-> 0, totalCost |-> 0]
    ELSE [p95All    |-> p([k \in 1..Len(ms) |-> NumberOr0(ms[k].latency_ms)], Q95),
          total     |-> Len(ms),
          totalCost |-> SumCost(ms)]

----------------------------------------------------------------------------
(* The day-bucketed aggregation of the page variant of page.tsx:693-930      *)
(* (lines 781-807).  A created_at is a timestamp of May 2024 given by its    *)
(* local date, its hour and its offset from UTC in hours.                    *)

Stamp(date, hour, offset) == [date |-> date, hour |-> hour, offset |-> offset]

\* The UTC date of a timestamp, as new Date(created_at) holds it.
UtcDate(ts) == ts.date + ((ts.hour - ts.offset) \div 24)

\* toISOString().slice(0, 10): the date with two digits for the day.
IsoDay(n) ==
    <<"2", "0", "2", "4", "-", "0", "5", "-">>
        \o <<Digits[(n \div 10) + 1], Digits[(n % 10) + 1]>>

\* page.tsx:787
DayOf(r) == IsoDay(UtcDate(r.created_at))

\* The code unit of a character of a day key.
CodeUnit(c) == IF c = "-" THEN 45 ELSE 48 + DigitVal(c)

\* The order Array.prototype.sort() without a comparator puts strings in.
RECURSIVE TextBefore(_, _)
TextBefore(a, b) ==
    IF b = <<>> THEN FALSE
    ELSE IF a = <<>> THEN TRUE
    ELSE IF Head(a) = Head(b) THEN TextBefore(Tail(a), Tail(b))
    ELSE CodeUnit(Head(a)) < CodeUnit(Head(b))

RECURSIVE InsertText(_, _)
InsertText(x, s) ==
    IF s = <<>> THEN <<x>>
    ELSE IF TextBefore(x, Head(s)) THEN <<x>> \o s
    ELSE <<Head(s)>> \o InsertText(x, Tail(s))

RECURSIVE SortTexts(_)
SortTexts(ts) == IF ts = <<>> THEN <<>> ELSE InsertText(Head(ts), SortTexts(Tail(ts)))

\* page.tsx:785-793  the keys of byDay, in the order of their first record.
RECURSIVE DayKeys(_, _)
DayKeys(ms, seen) ==
    IF ms = <<>> THEN seen
    ELSE LET day == DayOf(Head(ms))
         IN  DayKeys(Tail(ms),
                     IF \E k \in 1..Len(seen) : seen[k] = day THEN seen
                     ELSE Append(seen, day))

\* page.tsx:794
SortedDays(ms) == SortTexts(DayKeys(ms, <<>>))

\* A bucket that every record of its day replaces.
OfDayLatest(ms, d) ==
    LET rs == SelectSeq(ms, LAMBDA r : DayOf(r) = d)
    IN  IF rs = <<>> THEN <<>> ELSE <<rs[Len(rs)]>>

\* byDay.get(d): the records of day d, in snapshot order.
OfDay(ms, d) == SelectSeq(ms, LAMBDA r : DayOf(r) = d)

\* page.tsx:801-803
DailyOf(ms) ==
    LET days == SortedDays(ms)
    IN  [dailyReqs |-> [k \in 1..Len(days) |->
                           [day |-> days[k], reqs |-> Len(OfDay(ms, days[k]))]],
         dailyP95  |-> [k \in 1..Len(days) |->
                           LET rs == OfDay(ms, days[k])
                           IN  [day |-> days[k],
                                p95 |-> p([x \in 1..Len(rs) |->
                                              NumberOr0(rs[x].latency_ms)], Q95)]],
         dailyCost |-> [k \in 1..Len(days) |->
                           [day |-> days[k], cost |-> SumCost(OfDay(ms, days[k]))]]]

\* An aggregation that files every record under its local date.
AggregateByLocalDate(ms) ==
    LET local == [k \in 1..Len(ms) |->
                     [ms[k] EXCEPT !.created_at = Stamp(ms[k].created_at.date, 0, 0)]]
    IN  [daily |-> DailyOf(local), kpis |-> Kpis(ms)]

\* page.tsx:781-807  the memo of the variant with per-day lists; its KPI
\* fields are computed as those of page.tsx:433-444.
Aggregate(ms) ==
    IF Len(ms) = 0
    THEN [daily |-> [dailyReqs |-> <<>>, dailyP95 |-> <<>>, dailyCost |-> <<>>],
          kpis  |-> [p95All |-> 0, total |-> 0, totalCost |-> 0]]
    ELSE [daily |-> DailyOf(ms), kpis |-> Kpis(ms)]

\* A memo that counts the requests on top of the count it gave before.
MemoCounting(prev, ms) ==
    [Aggregate(ms) EXCEPT !.kpis.total = prev.kpis.total + Len(ms)]

\* useMemo(..., [metrics]): the value for the snapshot ms when the last value
\* was prev.  The computation reads nothing but ms.
Memo(prev, ms) == Aggregate(ms)

----------------------------------------------------------------------------
(* The API helpers, part_006:3-31.  A response is its status and its body    *)
(* text; None stands for a fetch that rejects.  An outcome is what the       *)
(* helper's promise settles with: a value returned or an error thrown.       *)

\* The decimal digits of a status, as a template literal prints it.
RECURSIVE DecimalOf(_)
DecimalOf(n) ==
    IF n < 10 THEN <<Digits[n + 1]>>
    ELSE DecimalOf(n \div 10) \o <<Digits[(n % 10) + 1]>>

\* res.ok
IsOk(res) == 200 <= res.status /\ res.status <= 299

\* `${res.status} ${await res.text()}`, part_006:17 and 29
ErrorMessage(res) == DecimalOf(res.status) \o <<" ">> \o res.text

Returned(value) == [kind |-> "returned", value |-> value]

Thrown(message) == [kind |-> "thrown", value |-> message]

\* The failure of fetch itself, which the helpers let through.
FetchError == <<"f", "e", "t", "c", "h">>

\* tok ? ... : a token that is absent or the empty string is falsy.
Truthy(x) == x # None /\ x[1] # ""

\* part_006:9-16  what apiJson hands to fetch.
apiJsonRequest(path, tok, method, body) ==
    [path    |-> path,
     method  |-> method,
     headers |-> (IF Truthy(tok) THEN {<<"Authorization", <<"Bearer ", tok[1]>>>>}
                  ELSE {})
                 \cup (IF body # None THEN {<<"Content-Type", "application/json">>}
                       ELSE {}),
     body    |-> IF body # None THEN Some([json |-> body[1]]) ELSE None]

\* An apiJson that returns the body whatever the status.
apiJsonOutcomeUnchecked(res) ==
    IF res = None THEN Thrown(FetchError) ELSE Returned([json |-> res[1].text])

\* part_006:17-18  what apiJson settles with for the response res.
apiJsonOutcome(res) ==
    IF res = None THEN Thrown(FetchError)
    ELSE IF ~IsOk(res[1]) THEN Thrown(ErrorMessage(res[1]))
    ELSE Returned([json |-> res[1].text])

\* part_006:22-28  what apiCsv hands to fetch.
apiCsvRequest(path, file, tok) ==
    [path    |-> path,
     method  |-> "POST",
     headers |-> {<<"Authorization", <<"Bearer ", tok>>>>},
     body    |-> Some([form |-> file])]

\* part_006:29-30
apiCsvOutcome(res) ==
    IF res = None THEN Thrown(FetchError)
    ELSE IF ~IsOk(res[1]) THEN Thrown(ErrorMessage(res[1]))
    ELSE Returned([blob |-> res[1].text])

----------------------------------------------------------------------------
(* What the user and the server can send. *)

\* What a number input can hold: the empty text or a valid floating-point
\* number ("-1", ".5" and "2.5" are valid).
RowTexts ==
    {<<>>, <<"-", "1">>, <<".", "5">>, <<"2", ".", "5">>}
        \cup {<<Digits[d + 1]>> : d \in 0..MaxRowDigit}

\* What the Feature-columns field can hold: every short text, and the texts of
\* the specification's scenario.
ColTexts ==
    SeqsUpTo({"f", ",", " "}, MaxColText)
        \cup {F1 \o <<",">> \o F2, F1 \o <<",">> \o F2 \o <<",">> \o F3,
              <<" ">> \o F1 \o <<" ", ",", ",">> \o F2 \o <<",">>}

\* The row and column indices a cell edit is tried at, counted from 0: those
\* of the largest matrix and one past them.
CellIdx == 0..DefaultRows

\* Typed cell values, in thousandths.
CellValues == {0, 500}

\* +(Math.random() * 2 - 1).toFixed(3): a multiple of 0.001 in [-1, 1].
RandomValues == {v \in CellValues : -1000 <= v /\ v <= 1000}

\* feature_columns of a /health response: absent (None) or an array.
HealthColumns ==
    {None, Some(<<>>), Some(<<<<"x">>, <<"y">>>>)}

----------------------------------------------------------------------------
(* The calls in flight.  A call the user's action issued carries the number   *)
(* of its issue; the calls the page issues by itself on start carry 0.        *)

Call(id, kind, body) == [id |-> id, kind |-> kind, body |-> body]

\* A startup that starts creating the client whatever the environment holds.
StartupCallsAlways(missing) ==
    {Call(0, "autoHealth", <<>>), Call(0, "createClient", <<>>)}

\* page.tsx:366-384 issues /health on mount; page.tsx:338-347 starts creating
\* the client on mount unless the environment is not configured.
StartupCalls(missing) ==
    {Call(0, "autoHealth", <<>>)}
        \cup (IF missing THEN {} ELSE {Call(0, "createClient", <<>>)})

Pending(kind) == {c \in calls : c.kind = kind}

\* page.tsx:473-481  the environment warning is rendered while envMissing.
BannerShown == envMissing

----------------------------------------------------------------------------
(* The state after construction and the mount effects. *)

Init ==
    /\ rows = DefaultRows
    /\ featureCols = DefaultFeatureCols
    /\ inputs = ZeroMatrix(3, 3)
    /\ outputs = None
    /\ health = None
    /\ who = None
    /\ csvResultUrl = None
    /\ csvPreview = <<>>
    /\ metrics = <<>>
    /\ derived = Aggregate(<<>>)
    /\ sb = None
    /\ token = None
    /\ envMissing \in BOOLEAN
    /\ calls = StartupCalls(envMissing)
    /\ issued = 0
    /\ surfaced = "nothing"
    /\ lastOp = "init"
    /\ lastArg = <<>>
    /\ before = <<>>
    /\ resolved = <<>>
    /\ result = None

----------------------------------------------------------------------------
(* History. *)

Record(op, arg, pre) ==
    /\ lastOp' = op
    /\ lastArg' = arg
    /\ before' = pre
    /\ UNCHANGED <<resolved, result>>

----------------------------------------------------------------------------
(* The matrix handlers. *)

\* page.tsx:556  onChange of the Rows input, and the sizing effect after it.
SetRows(text) ==
    LET n == RowsOfText(text)
    IN  /\ rows' = n
        /\ inputs' = SizedInputs(inputs, n, Len(featureCols), rows, Len(featureCols))
        /\ surfaced' = "nothing"
        /\ UNCHANGED <<featureCols, resVars, authVars, netVars>>

\* page.tsx:563-570  onChange of the Feature-columns input, and the effect.
SetColumns(text) ==
    LET cols == ParseColumns(text)
    IN  /\ featureCols' = cols
        /\ inputs' = SizedInputs(inputs, rows, Len(cols), rows, Len(featureCols))
        /\ surfaced' = "nothing"
        /\ UNCHANGED <<rows, resVars, authVars, netVars>>

\* A cell edit that overwrites the whole row.
CellEditRow(prev, i, j, val) ==
    [ri \in 1..Len(prev) |->
        IF ri = i + 1 THEN [rj \in 1..Len(prev[ri]) |-> val] ELSE prev[ri]]

\* page.tsx:588-590  the updater of a cell edit at (i, j), counted from 0.
CellEdit(prev, i, j, val) ==
    [ri \in 1..Len(prev) |->
        IF ri = i + 1
        THEN [rj \in 1..Len(prev[ri]) |-> IF rj = j + 1 THEN val ELSE prev[ri][rj]]
        ELSE prev[ri]]

\* page.tsx:586-591
SetCell(i, j, val) ==
    /\ inputs' = CellEdit(inputs, i, j, val)
    /\ surfaced' = "nothing"
    /\ UNCHANGED <<rows, featureCols, resVars, authVars, netVars>>

\* page.tsx:603
Clear ==
    /\ inputs' = [i \in 1..Len(inputs) |-> [j \in 1..Len(inputs[i]) |-> 0]]
    /\ surfaced' = "nothing"
    /\ UNCHANGED <<rows, featureCols, resVars, authVars, netVars>>

\* page.tsx:606-609  every cell of prev draws its own random value (the rows
\* of the matrix all have the width of the first).
Randomize ==
    /\ LET width == IF inputs = <<>> THEN 0 ELSE Len(inputs[1])
       IN  inputs' \in [1..Len(inputs) -> [1..width -> RandomValues]]
    /\ surfaced' = "nothing"
    /\ UNCHANGED <<rows, featureCols, resVars, authVars, netVars>>

\* A startup health answer that only renames the columns and lets the sizing
\* effect keep what was entered.
HealthAutoOkKeeping(fc) ==
    /\ Pending("autoHealth") # {}
    /\ calls' = calls \ Pending("autoHealth")
    /\ health' = Some([ok |-> TRUE, feature_columns |-> fc])
    /\ IF fc # None /\ Len(fc[1]) > 0
       THEN /\ featureCols' = fc[1]
            /\ rows' = rows
            /\ inputs' = SizedInputs(inputs, rows, Len(fc[1]), rows, Len(featureCols))
       ELSE UNCHANGED matVars
    /\ surfaced' = "nothing"
    /\ UNCHANGED <<outputs, who, csvResultUrl, csvPreview, metrics, derived, authVars, issued>>

\* page.tsx:369-379  the startup /health call resolves: the response is
\* stored and, when it lists feature columns, the playground is reset to them.
HealthAutoOk(fc) ==
    /\ Pending("autoHealth") # {}
    /\ calls' = calls \ Pending("autoHealth")
    /\ health' = Some([ok |-> TRUE, feature_columns |-> fc])
    /\ IF fc # None /\ Len(fc[1]) > 0
       THEN /\ featureCols' = fc[1]
            /\ rows' = DefaultRows
            /\ inputs' = SizedInputs(ZeroMatrix(3, Len(fc[1])), DefaultRows, Len(fc[1]),
                                     rows, Len(featureCols))
       ELSE UNCHANGED matVars
    /\ surfaced' = "nothing"
    /\ UNCHANGED <<outputs, who, csvResultUrl, csvPreview, metrics, derived, authVars, issued>>

\* page.tsx:380-382  the startup /health call fails and the failure is ignored.
HealthAutoFail ==
    /\ Pending("autoHealth") # {}
    /\ calls' = calls \ Pending("autoHealth")
    /\ surfaced' = "nothing"
    /\ UNCHANGED <<pageVars, issued>>

----------------------------------------------------------------------------
(* The session.  The client serialises its auth operations: the session     *)
(* read of page.tsx:356 is answered before a sign-in started after it.      *)

\* page.tsx:342-346  the client module is loaded and the client stored; the
\* effects that depend on it (page.tsx:354-363 and 418-430) read the stored
\* session and query the usage log.
ClientCreated ==
    /\ Pending("createClient") # {}
    /\ sb' = Some("client")
    /\ calls' = (calls \ Pending("createClient"))
                    \cup {Call(0, "getSession", <<>>), Call(0, "logs", <<>>)}
    /\ surfaced' = "nothing"
    /\ UNCHANGED <<matVars, resVars, token, envMissing, issued>>

\* page.tsx:356  data.session?.access_token ?? null
GetSessionDone(sess) ==
    /\ Pending("getSession") # {}
    /\ calls' = calls \ Pending("getSession")
    /\ token' = sess
    /\ surfaced' = "nothing"
    /\ UNCHANGED <<matVars, resVars, sb, envMissing, issued>>

\* A user action issues its call, numbered in the order of issue.
Issue(kind, body) ==
    /\ issued < MaxCalls
    /\ issued' = issued + 1
    /\ calls' = calls \cup {Call(issued + 1, kind, body)}

\* page.tsx:512-514  the Sign in button, rendered while there is no token and
\* enabled once the client exists.
SignInClick ==
    /\ token = None
    /\ sb # None
    /\ Issue("signIn", <<>>)
    /\ surfaced' = "nothing"
    /\ UNCHANGED pageVars

\* A sign-in whose new session makes the page query the usage log again.
SignInOkRefetching(c) ==
    /\ c \in Pending("signIn")
    /\ Pending("getSession") = {}
    /\ calls' = (calls \ {c}) \cup {Call(0, "logs", <<>>)}
    /\ token' = Some("t1")
    /\ surfaced' = "nothing"
    /\ UNCHANGED <<matVars, resVars, sb, envMissing, issued>>

\* page.tsx:357-359  the provider reports the new session.
SignInOk(c) ==
    /\ c \in Pending("signIn")
    /\ Pending("getSession") = {}
    /\ calls' = calls \ {c}
    /\ token' = Some("t1")
    /\ surfaced' = "nothing"
    /\ UNCHANGED <<matVars, resVars, sb, envMissing, issued>>

\* A rejected sign-in that alerts and then tries again by itself.
SignInFailRetried(c) ==
    /\ c \in Pending("signIn")
    /\ Pending("getSession") = {}
    /\ IF issued < MaxCalls
       THEN /\ calls' = (calls \ {c}) \cup {Call(issued + 1, "signIn", <<>>)}
            /\ issued' = issued + 1
       ELSE /\ calls' = calls \ {c}
            /\ issued' = issued
    /\ surfaced' = "alert: error.message"
    /\ UNCHANGED pageVars

\* page.tsx:515  if (error) alert(error.message)
SignInFail(c) ==
    /\ c \in Pending("signIn")
    /\ Pending("getSession") = {}
    /\ calls' = calls \ {c}
    /\ surfaced' = "alert: error.message"
    /\ UNCHANGED <<pageVars, issued>>

\* page.tsx:464  the Sign out button, rendered while there is a token.
SignOutClick ==
    /\ token # None
    /\ sb # None
    /\ Issue("signOut", <<>>)
    /\ surfaced' = "nothing"
    /\ UNCHANGED pageVars

\* A sign-out that abandons the predictions in flight.
SignOutCancels(c) ==
    /\ c \in Pending("signOut")
    /\ calls' = (calls \ {c}) \ Pending("predict")
    /\ token' = None
    /\ surfaced' = "nothing"
    /\ UNCHANGED <<matVars, resVars, sb, envMissing, issued>>

\* page.tsx:357-359  the provider reports that the session has ended.
SignOutDone(c) ==
    /\ c \in Pending("signOut")
    /\ calls' = calls \ {c}
    /\ token' = None
    /\ surfaced' = "nothing"
    /\ UNCHANGED <<matVars, resVars, sb, envMissing, issued>>

----------------------------------------------------------------------------
(* The usage log, page.tsx:418-430. *)

\* page.tsx:428  if (!error && data) setMetrics(data)
LogsOk(data) ==
    /\ Pending("logs") # {}
    /\ calls' = calls \ Pending("logs")
    /\ metrics' = data
    /\ derived' = Memo(derived, data)
    /\ surfaced' = "nothing"
    /\ UNCHANGED <<matVars, outputs, health, who, csvResultUrl, csvPreview,
                   authVars, issued>>

\* page.tsx:428  the query reports an error: nothing is stored, nothing shown.
LogsFail ==
    /\ Pending("logs") # {}
    /\ calls' = calls \ Pending("logs")
    /\ surfaced' = "nothing"
    /\ UNCHANGED <<pageVars, issued>>

----------------------------------------------------------------------------
(* The calls to the prediction API.  A call that fails (fetch rejects, or    *)
(* the status is not 2xx and apiJson / apiCsv throws) rejects the handler's  *)
(* promise, which nothing catches.                                          *)

\* page.tsx:387, the Check Health button, rendered while there is a token.
HealthClick ==
    /\ token # None
    /\ Issue("health", <<>>)
    /\ surfaced' = "nothing"
    /\ UNCHANGED pageVars

\* page.tsx:387  setHealth(await apiJson("/health"))
HealthOk(c, fc) ==
    /\ c \in Pending("health")
    /\ calls' = calls \ {c}
    /\ health' = Some([ok |-> TRUE, feature_columns |-> fc])
    /\ surfaced' = "nothing"
    /\ UNCHANGED <<matVars, outputs, who, csvResultUrl, csvPreview, metrics, derived,
                   authVars, issued>>

\* A failure after which the call is issued again.
RejectedAndRetried(c, kinds) ==
    /\ c \in calls
    /\ c.kind \in kinds
    /\ calls' = calls
    /\ surfaced' = "rejection"
    /\ UNCHANGED <<pageVars, issued>>

\* A failure that ends the session.
RejectedFatal(c, kinds) ==
    /\ c \in calls
    /\ c.kind \in kinds
    /\ calls' = calls \ {c}
    /\ surfaced' = "rejection"
    /\ token' = None
    /\ UNCHANGED <<matVars, resVars, sb, envMissing, issued>>

\* A call of the given kinds fails and its handler's promise rejects.
Rejected(c, kinds) ==
    /\ c \in calls
    /\ c.kind \in kinds
    /\ calls' = calls \ {c}
    /\ surfaced' = "rejection"
    /\ UNCHANGED <<pageVars, issued>>

HealthFail(c) == Rejected(c, {"health"})

\* page.tsx:388-391  checkWhoami: nothing happens without a token.
WhoamiClick ==
    /\ IF token = None
       THEN UNCHANGED netVars
       ELSE Issue("whoami", [token |-> token[1]])
    /\ surfaced' = "nothing"
    /\ UNCHANGED pageVars

\* page.tsx:390
WhoamiOk(c) ==
    /\ c \in Pending("whoami")
    /\ calls' = calls \ {c}
    /\ who' = Some([user_id |-> "u1"])
    /\ surfaced' = "nothing"
    /\ UNCHANGED <<matVars, outputs, health, csvResultUrl, csvPreview, metrics, derived,
                   authVars, issued>>

WhoamiFail(c) == Rejected(c, {"whoami"})

\* A doPredict without its token guard.
PredictClickUnguarded ==
    /\ Issue("predict", [token |-> IF token = None THEN "" ELSE token[1],
                         inputs |-> inputs])
    /\ surfaced' = "nothing"
    /\ UNCHANGED pageVars

\* page.tsx:393-395  doPredict up to its await.  The Predict button is
\* disabled while there is no token (page.tsx:600); the handler has its own
\* guard and is modelled whole.
PredictClick ==
    /\ IF token = None
       THEN /\ surfaced' = "alert: Login first."
            /\ UNCHANGED netVars
       ELSE /\ Issue("predict", [token |-> token[1], inputs |-> inputs])
            /\ surfaced' = "nothing"
    /\ UNCHANGED pageVars

\* An outputs slot that only takes the response of the latest request.
LandedIfLatest(cur, c, outs) == IF c.id = issued THEN Some(outs) ELSE cur

\* page.tsx:396  setOutputs(res.outputs): what the slot holds after the
\* response outs of call c has landed on cur.
Landed(cur, c, outs) == Some(outs)

\* A table that leaves the prediction cell out of a row without an output.
DisplayRowsRagged(m, outs) ==
    [idx \in 1..Len(m) |->
        IF idx <= Len(outs) THEN Append(m[idx], outs[idx]) ELSE m[idx]]

\* page.tsx:621  the rows of the prediction preview:
\* inputs.map((row, idx) => [...row, outputs[idx] ?? ""])
DisplayRows(m, outs) ==
    [idx \in 1..Len(m) |->
        Append(m[idx], IF idx <= Len(outs) THEN outs[idx] ELSE Blank)]

\* page.tsx:395-396  the rest of doPredict.
PredictOk(c, outs) ==
    /\ c \in Pending("predict")
    /\ calls' = calls \ {c}
    /\ outputs' = Landed(outputs, c, outs)
    /\ surfaced' = "nothing"
    /\ UNCHANGED <<matVars, health, who, csvResultUrl, csvPreview, metrics, derived,
                   authVars, issued>>

PredictFail(c) == Rejected(c, {"predict"})

----------------------------------------------------------------------------
(* The CSV upload, page.tsx:399-408. *)

\* text.split(/\r?\n/): the lines between line breaks, a break being a line
\* feed with or without a carriage return before it.
RECURSIVE SplitLines(_, _)
SplitLines(s, cur) ==
    IF s = <<>> THEN <<cur>>
    ELSE IF Head(s) = "\n" THEN <<cur>> \o SplitLines(Tail(s), <<>>)
    ELSE IF Head(s) = "\r" /\ Len(s) >= 2 /\ s[2] = "\n"
         THEN <<cur>> \o SplitLines(Tail(Tail(s)), <<>>)
    ELSE SplitLines(Tail(s), Append(cur, Head(s)))

\* page.tsx:406  slice(0, 26)
PreviewLines == 26

\* A preview that keeps every line.
PreviewOfUncut(text) ==
    LET kept == FilterNonEmpty(SplitLines(text, <<>>))
    IN  [k \in 1..Len(kept) |->
            LET cells == SplitComma(kept[k], <<>>)
            IN  [x \in 1..Len(cells) |-> trim(cells[x])]]

\* page.tsx:405-406  the preview of a result text.
PreviewOf(text) ==
    LET lines == FilterNonEmpty(SplitLines(text, <<>>))
        kept  == SubSeq(lines, 1, IF Len(lines) < PreviewLines THEN Len(lines)
                                  ELSE PreviewLines)
    IN  [k \in 1..Len(kept) |->
            LET cells == SplitComma(kept[k], <<>>)
            IN  [x \in 1..Len(cells) |-> trim(cells[x])]]

\* page.tsx:668-671  the table shown for a stored preview: nothing for an
\* empty one, else csvPreview[0] as headers and csvPreview.slice(1, 26) as rows.
PreviewTable(preview) ==
    IF Len(preview) = 0 THEN None
    ELSE Some([headers |-> preview[1],
               rows    |-> SubSeq(preview, 2, IF Len(preview) < PreviewLines
                                              THEN Len(preview) ELSE PreviewLines)])

\* page.tsx:399-401  onCsvFile up to its first await.  The file input is
\* always enabled (page.tsx:638-646).
CsvSelect(file) ==
    /\ IF token = None
       THEN /\ surfaced' = "alert: Login first."
            /\ UNCHANGED netVars
       ELSE /\ Issue("csv", [token |-> token[1], file |-> file])
            /\ surfaced' = "nothing"
    /\ UNCHANGED pageVars

\* page.tsx:401-404  the upload is answered with a blob: its link is stored
\* (URL.createObjectURL gives every blob its own URL) and its text awaited.
CsvOk(c, text) ==
    /\ c \in Pending("csv")
    /\ calls' = (calls \ {c}) \cup {Call(c.id, "csvText", [text |-> text])}
    /\ csvResultUrl' = Some([blob |-> c.id])
    /\ surfaced' = "nothing"
    /\ UNCHANGED <<matVars, outputs, health, who, csvPreview, metrics, derived,
                   authVars, issued>>

\* page.tsx:404-407  the text has been read and the preview is stored.
CsvTextDone(c) ==
    /\ c \in Pending("csvText")
    /\ calls' = calls \ {c}
    /\ csvPreview' = PreviewOf(c.body.text)
    /\ surfaced' = "nothing"
    /\ UNCHANGED <<matVars, outputs, health, who, csvResultUrl, metrics, derived,
                   authVars, issued>>

CsvFail(c) == Rejected(c, {"csv"})

----------------------------------------------------------------------------
(* What the servers can answer. *)

\* The stored session the client finds on start: none, or one with a token.
Sessions == {None, Some("t1")}

\* One output for every row of the request.
OutValues == {7000, 9000}

PredictResponses(c) ==
    {[k \in 1..Len(c.body.inputs) |-> v] : v \in OutValues}

Files == {"batch.csv"}

\* A result text: a header and a row with padded cells, both kinds of line
\* break and an empty line.
ResultTexts ==
    {<<"a", ",", " ", "b", "\r", "\n", "\n", "1", ",", "2", " ", "\n">>}

Latencies == {None, Some(40), Some(100)}

Costs == {None, Some(2500)}

\* 2024-05-10T12:00:00+00:00
Noon == Stamp(10, 12, 0)

MetricRows ==
    [created_at : {Noon}, latency_ms : Latencies, cost_usd : Costs]

\* The snapshots the log query can return.
Snapshots == SeqsUpTo(MetricRows, MaxRecords)

----------------------------------------------------------------------------
(* The playground alone: every matrix event, in any order. *)

NextMatrix ==
    \/ \E text \in RowTexts : SetRows(text) /\ UNCHANGED hist
    \/ \E text \in ColTexts : SetColumns(text) /\ UNCHANGED hist
    \/ \E i \in CellIdx, j \in CellIdx, val \in CellValues :
          SetCell(i, j, val) /\ UNCHANGED hist
    \/ Clear /\ UNCHANGED hist
    \/ Randomize /\ UNCHANGED hist
    \/ \E fc \in HealthColumns : HealthAutoOk(fc) /\ UNCHANGED hist
    \/ HealthAutoFail /\ UNCHANGED hist

SpecMatrix == Init /\ [][NextMatrix]_vars

----------------------------------------------------------------------------
(* The resizing handlers, each step recorded with the text it carried and   *)
(* the matrix it found.  They start on the page as it stands once the       *)
(* session has been restored, the startup /health call and the log query    *)
(* have failed, one prediction for the three rows has been shown, and the   *)
(* cells are still empty or have all been filled in.                        *)

\* A matrix with a different value typed into every cell, 1.5 in cell (0,0).
Entered == <<<<1500, 200, 300>>, <<400, 500, 600>>, <<700, 800, 900>>>>

AfterPrediction ==
    /\ rows = DefaultRows
    /\ featureCols = DefaultFeatureCols
    /\ outputs = Some(<<7000, 7000, 7000>>)
    /\ health = None
    /\ who = None
    /\ csvResultUrl = None
    /\ csvPreview = <<>>
    /\ metrics = <<>>
    /\ derived = Aggregate(<<>>)
    /\ sb = Some("client")
    /\ token = Some("t1")
    /\ envMissing = FALSE
    /\ calls = {}
    /\ issued = 1
    /\ surfaced = "nothing"

NoHistory ==
    /\ lastOp = "init"
    /\ lastArg = <<>>
    /\ before = <<>>
    /\ resolved = <<>>
    /\ result = None

InitResize ==
    /\ AfterPrediction
    /\ inputs \in {ZeroMatrix(3, 3), Entered}
    /\ NoHistory

\* An event that is not recorded.
Forget == Record("other", <<>>, <<>>)

RowsEdit(text) == SetRows(text) /\ Record("setRows", text, inputs)

ColumnsEdit(text) ==
    /\ SetColumns(text)
    /\ IF lastOp = "setRows"
       THEN Record("setRows;setColumns", text, before)
       ELSE Record("setColumns", text, <<>>)

NextResize ==
    \/ \E text \in RowTexts : RowsEdit(text)
    \/ \E text \in ColTexts : ColumnsEdit(text)

SpecResize == InitResize /\ [][NextResize]_vars

----------------------------------------------------------------------------
(* Two edits of the same field in a row.  The second edit of a pair keeps   *)
(* the matrix found before the first in `before` and records the matrix     *)
(* between the two in `result`.                                             *)

Paired(op, twice, text) ==
    /\ IF lastOp = op
       THEN /\ lastOp' = twice
            /\ before' = before
            /\ result' = Some(inputs)
       ELSE /\ lastOp' = op
            /\ before' = inputs
            /\ result' = None
    /\ lastArg' = text
    /\ UNCHANGED resolved

\* What the Rows field takes in a pair of edits.
PairRowTexts == {<<Digits[d + 1]>> : d \in 0..(MaxRowDigit + 1)}

\* What the Feature-columns field takes in a pair of edits.
PairColTexts ==
    {<<>>, F1, F1 \o <<",">> \o F2, F1 \o <<",">> \o F2 \o <<",">> \o F3}

InitPairs ==
    /\ AfterPrediction
    /\ inputs \in {ZeroMatrix(3, 3), Entered}
    /\ NoHistory

NextPairs ==
    \/ \E text \in PairRowTexts : SetRows(text) /\ Paired("setRows", "setRows;setRows", text)
    \/ \E text \in PairColTexts : SetColumns(text)
                                /\ Paired("setColumns", "setColumns;setColumns", text)

SpecPairs == InitPairs /\ [][NextPairs]_vars

----------------------------------------------------------------------------
(* The cell edits recorded, between resizes that are not. *)

CellInput(i, j, val) == SetCell(i, j, val) /\ Record("setCell", <<i, j, val>>, <<>>)

NextCell ==
    \/ \E i \in CellIdx, j \in CellIdx, val \in CellValues : CellInput(i, j, val)
    \/ \E text \in RowTexts : SetRows(text) /\ Forget
    \/ \E text \in ColTexts : SetColumns(text) /\ Forget

InitCell == AfterPrediction /\ inputs = ZeroMatrix(3, 3) /\ NoHistory

SpecCell == InitCell /\ [][NextCell]_vars

----------------------------------------------------------------------------
(* The percentile function on its own: an array and a quantile are drawn,   *)
(* and the function is evaluated on them.                                   *)

PValues == 1..5

\* 0, 1/4, 1/2, 3/4, 0.95, 1, and one quantile above 1.
Quantiles ==
    {[num |-> k, den |-> 4] : k \in 0..5} \cup {Q95}

InitPercentile ==
    /\ AfterPrediction
    /\ inputs = ZeroMatrix(3, 3)
    /\ lastOp = "init"
    /\ lastArg \in [arr : SeqsUpTo(PValues, MaxValues), q : Quantiles]
    /\ before = <<>>
    /\ resolved = <<>>
    /\ result = None

Evaluate ==
    /\ result = None
    /\ result' = Some(p(lastArg.arr, lastArg.q))
    /\ lastOp' = "p"
    /\ UNCHANGED <<pageVars, netVars, surfaced, lastArg, before, resolved>>

SpecPercentile == InitPercentile /\ [][Evaluate]_vars

----------------------------------------------------------------------------
(* The API helpers on their own: a call and the response to it are drawn,   *)
(* and the helper is run on them.                                           *)

Statuses == {200, 201, 299, 300, 304, 400, 401, 404, 500}

Responses ==
    {None} \cup {Some([status |-> st, text |-> tx]) :
                    st \in Statuses, tx \in {<<>>, <<"n", "o">>, <<"4", "0", "4">>}}

ApiCalls ==
    [fn : {"apiJson"}, path : {"/predict"}, token : {None, Some(""), Some("t1")},
     method : {"GET", "POST"}, body : {None, Some("inputs")}, res : Responses]
        \cup [fn : {"apiCsv"}, path : {"/predict_csv"}, token : {Some(""), Some("t1")},
              method : {"POST"}, body : {Some("batch.csv")}, res : Responses]

InitApi ==
    /\ AfterPrediction
    /\ inputs = ZeroMatrix(3, 3)
    /\ lastOp = "init"
    /\ lastArg \in ApiCalls
    /\ before = <<>>
    /\ resolved = <<>>
    /\ result = None

Fetch ==
    /\ result = None
    /\ result' = Some(IF lastArg.fn = "apiJson"
                      THEN [request |-> apiJsonRequest(lastArg.path, lastArg.token,
                                                       lastArg.method, lastArg.body),
                            outcome |-> apiJsonOutcome(lastArg.res)]
                      ELSE [request |-> apiCsvRequest(lastArg.path, lastArg.body[1],
                                                      lastArg.token[1]),
                            outcome |-> apiCsvOutcome(lastArg.res)])
    /\ lastOp' = "fetch"
    /\ UNCHANGED <<pageVars, netVars, surfaced, lastArg, before, resolved>>

SpecApi == InitApi /\ [][Fetch]_vars

----------------------------------------------------------------------------
(* The cached client, part_006:35-52, on its own.  The runtime (whether      *)
(* there is a window, the URL and the key the build inlined) is drawn at     *)
(* the start and stays; lastArg holds it, result holds _client, before       *)
(* counts the clients createClient has made, and resolved lists what the     *)
(* calls settled with.                                                      *)

BrowserOnly == "getSupabase() must be called in the browser"

MissingEnv == "Missing NEXT_PUBLIC_SUPABASE_URL or NEXT_PUBLIC_SUPABASE_ANON_KEY"

\* part_006:46  createClient: every call makes a client of its own.
createClient(url, key, made) == [id |-> made + 1, url |-> url, key |-> key]

\* A getSupabase that makes a client on every call.
getSupabaseUncached(cached, env, made) ==
    IF ~env.window
    THEN [cached |-> cached, made |-> made, outcome |-> Thrown(BrowserOnly)]
    ELSE IF ~Truthy(env.url) \/ ~Truthy(env.key)
         THEN [cached |-> cached, made |-> made, outcome |-> Thrown(MissingEnv)]
         ELSE LET client == createClient(env.url[1], env.key[1], made)
              IN  [cached |-> Some(client), made |-> made + 1,
                   outcome |-> Returned(client)]

\* part_006:38-52  one call of getSupabase with _client = cached.
getSupabase(cached, env, made) ==
    IF ~env.window
    THEN [cached |-> cached, made |-> made, outcome |-> Thrown(BrowserOnly)]
    ELSE IF cached = None
         THEN IF ~Truthy(env.url) \/ ~Truthy(env.key)
              THEN [cached |-> cached, made |-> made, outcome |-> Thrown(MissingEnv)]
              ELSE LET client == createClient(env.url[1], env.key[1], made)
                   IN  [cached |-> Some(client), made |-> made + 1,
                        outcome |-> Returned(client)]
         ELSE [cached |-> cached, made |-> made, outcome |-> Returned(cached[1])]

\* What the build can have inlined for the URL and for the key.
EnvValues == {None, Some(""), Some("a"), Some("b")}

Runtimes == [window : BOOLEAN, url : EnvValues, key : EnvValues]

InitClient ==
    /\ AfterPrediction
    /\ inputs = ZeroMatrix(3, 3)
    /\ lastOp = "init"
    /\ lastArg \in Runtimes
    /\ before = 0
    /\ resolved = <<>>
    /\ result = None

GetClient ==
    /\ Len(resolved) < MaxGets
    /\ LET got == getSupabase(result, lastArg, before)
       IN  /\ result' = got.cached
           /\ before' = got.made
           /\ resolved' = Append(resolved, got.outcome)
    /\ lastOp' = "getSupabase"
    /\ UNCHANGED <<pageVars, netVars, surfaced, lastArg>>

SpecClient == InitClient /\ [][GetClient]_vars

----------------------------------------------------------------------------
(* The CSV preview on its own: a result text is drawn and parsed.           *)

RECURSIVE Repeat(_, _)
Repeat(t, n) == IF n = 0 THEN <<>> ELSE t \o Repeat(t, n - 1)

\* "a,b\n1,2\n3,4\n"
ExampleCsv == <<"a", ",", "b", "\n", "1", ",", "2", "\n", "3", ",", "4", "\n">>

\* Every short text with cells, blanks and both kinds of line break, the
\* example, and a header followed by many rows.
CsvTexts ==
    SeqsUpTo({"a", ",", " ", "\r", "\n"}, MaxCsvText)
        \cup {ExampleCsv, <<"h", "\n">> \o Repeat(<<"1", "\n">>, MaxCsvLines - 1)}
        \cup ResultTexts

InitPreview ==
    /\ AfterPrediction
    /\ inputs = ZeroMatrix(3, 3)
    /\ lastOp = "init"
    /\ lastArg \in CsvTexts
    /\ before = <<>>
    /\ resolved = <<>>
    /\ result = None

\* page.tsx:404-407 and 668-671
Preview ==
    /\ result = None
    /\ result' = Some([preview |-> PreviewOf(lastArg),
                       table   |-> PreviewTable(PreviewOf(lastArg))])
    /\ lastOp' = "preview"
    /\ UNCHANGED <<pageVars, netVars, surfaced, lastArg, before, resolved>>

SpecPreview == InitPreview /\ [][Preview]_vars

----------------------------------------------------------------------------
(* The usage-log snapshot: the page starts, creates its client and queries  *)
(* the log; the KPIs are the memo over whatever snapshot is stored.         *)

NextMetrics ==
    \/ ClientCreated /\ UNCHANGED hist
    \/ \E sess \in Sessions : GetSessionDone(sess) /\ UNCHANGED hist
    \/ /\ Pending("logs") # {}
       /\ \E data \in Snapshots : LogsOk(data) /\ UNCHANGED hist
    \/ LogsFail /\ UNCHANGED hist

SpecMetrics == Init /\ [][NextMetrics]_vars

----------------------------------------------------------------------------
(* The snapshot over several days: the log query answers with records whose *)
(* timestamps fall on different UTC days, some on another UTC day than      *)
(* their local date, and the memo's function may be run again on the        *)
(* snapshot it has already aggregated.                                       *)

\* 01:00+02:00 on the 9th (the 8th in UTC), 23:00-02:00 on the 9th (the 10th),
\* 01:00+02:00 on the 10th (the 9th), and noon UTC on the 10th.
Stamps == {Stamp(9, 1, 2), Stamp(9, 23, 0 - 2), Stamp(10, 1, 2), Noon}

DayRows ==
    [created_at : Stamps, latency_ms : {None, Some(100)}, cost_usd : Costs]

DaySnapshots == SeqsUpTo(DayRows, MaxDayRecords)

\* page.tsx:781-807  the function of the memo is run again on the stored
\* snapshot (React may run it twice for one render).
Recompute ==
    /\ derived' = Memo(derived, metrics)
    /\ surfaced' = "nothing"
    /\ UNCHANGED <<matVars, outputs, health, who, csvResultUrl, csvPreview, metrics,
                   authVars, netVars>>

NextDaily ==
    \/ ClientCreated /\ Forget
    \/ /\ Pending("logs") # {}
       /\ \E data \in DaySnapshots : LogsOk(data) /\ Forget
    \/ LogsFail /\ Forget
    \/ Recompute /\ Record("recompute", <<>>, <<>>)

SpecDaily == Init /\ [][NextDaily]_vars

----------------------------------------------------------------------------
(* Two variants of the page side by side, fed the same events from the same *)
(* state.  The handlers of the Rows, Feature-columns and cell inputs are the *)
(* same text in all variants (page.tsx:86-96, 556-591, 863-886), so rows and *)
(* featureCols are shared; inputs is the matrix of the variant of            *)
(* page.tsx:326-332 and result holds the matrix of the variant of            *)
(* page.tsx:24-26 and 727-729.                                              *)

Twin(m) ==
    /\ lastOp' = "variants"
    /\ lastArg' = <<>>
    /\ before' = <<>>
    /\ resolved' = resolved
    /\ result' = Some(m)

\* Feature-columns texts of two and of three names.
VariantColTexts == {F1 \o <<",">> \o F2, F1 \o <<",">> \o F2 \o <<",">> \o F3}

InitVariants ==
    /\ AfterPrediction
    /\ inputs = ZeroMatrix(3, 3)
    /\ lastOp = "init"
    /\ lastArg = <<>>
    /\ before = <<>>
    /\ resolved = <<>>
    /\ result = Some(ZeroMatrix(3, 3))

NextVariants ==
    \/ \E text \in RowTexts :
          /\ SetRows(text)
          /\ Twin(ZeroFilledInputs(result[1], RowsOfText(text), Len(featureCols),
                                   rows, Len(featureCols)))
    \/ \E text \in VariantColTexts :
          /\ SetColumns(text)
          /\ Twin(ZeroFilledInputs(result[1], rows, Len(ParseColumns(text)),
                                   rows, Len(featureCols)))
    \/ \E i \in CellIdx, j \in CellIdx, val \in CellValues :
          /\ SetCell(i, j, val)
          /\ Twin(CellEdit(result[1], i, j, val))

SpecVariants == InitVariants /\ [][NextVariants]_vars

----------------------------------------------------------------------------
(* The whole page: the session, the calls and their answers in any order,   *)
(* between resizes of the playground.  The handlers with a token guard and  *)
(* the failures are recorded, and so is every prediction that lands.        *)

\* The Rows and Feature-columns texts typed while calls are in flight.
NetRowTexts == {<<"2">>, <<"3">>}

NetColTexts == {F1 \o <<",">> \o F2}

\* What the servers answer while other calls are in flight.
NetSnapshots == {<<[created_at |-> Noon, latency_ms |-> Some(40),
                    cost_usd |-> None]>>}

NetHealthColumns == {Some(<<<<"x">>, <<"y">>>>)}

\* The call of kind kind has failed.
Failed(kind) == Record("fail", kind, <<>>)

\* The response outs of call c has been applied.
Applied(c, outs) ==
    /\ lastOp' = "predictOk"
    /\ lastArg' = <<>>
    /\ before' = <<>>
    /\ resolved' = Append(resolved, [id |-> c.id, outputs |-> outs])
    /\ UNCHANGED result

NextNet ==
    \/ ClientCreated /\ Forget
    \/ \E sess \in Sessions : GetSessionDone(sess) /\ Forget
    \/ \E data \in NetSnapshots : LogsOk(data) /\ Forget
    \/ LogsFail /\ Failed("logs")
    \/ \E fc \in NetHealthColumns : HealthAutoOk(fc) /\ Forget
    \/ HealthAutoFail /\ Failed("autoHealth")
    \/ SignInClick /\ Forget
    \/ \E c \in calls : SignInOk(c) /\ Forget
    \/ \E c \in calls : SignInFail(c) /\ Failed("signIn")
    \/ SignOutClick /\ Forget
    \/ \E c \in calls : SignOutDone(c) /\ Forget
    \/ HealthClick /\ Forget
    \/ \E c \in calls, fc \in NetHealthColumns : HealthOk(c, fc) /\ Forget
    \/ \E c \in calls : HealthFail(c) /\ Failed("health")
    \/ WhoamiClick /\ Forget
    \/ \E c \in calls : WhoamiOk(c) /\ Forget
    \/ \E c \in calls : WhoamiFail(c) /\ Failed("whoami")
    \/ PredictClick /\ Record("predict", <<>>, <<>>)
    \/ \E c \in Pending("predict") : \E outs \in PredictResponses(c) :
          PredictOk(c, outs) /\ Applied(c, outs)
    \/ \E c \in calls : PredictFail(c) /\ Failed("predict")
    \/ \E file \in Files : CsvSelect(file) /\ Record("csv", <<>>, <<>>)
    \/ \E c \in calls, text \in ResultTexts : CsvOk(c, text) /\ Forget
    \/ \E c \in calls : CsvTextDone(c) /\ Forget
    \/ \E c \in calls : CsvFail(c) /\ Failed("csv")
    \/ \E text \in NetRowTexts : SetRows(text) /\ Forget
    \/ \E text \in NetColTexts : SetColumns(text) /\ Forget

SpecNet == Init /\ [][NextNet]_vars

----------------------------------------------------------------------------
(* Predictions on their own: the user, signed in, edits and resizes the     *)
(* matrix and asks for predictions, and the server answers with outputs of  *)
(* any length.  It starts on the page as it stands once the session has     *)
(* been restored and the startup /health call and the log query have failed. *)

SignedIn ==
    /\ rows = DefaultRows
    /\ featureCols = DefaultFeatureCols
    /\ inputs = ZeroMatrix(3, 3)
    /\ outputs = None
    /\ health = None
    /\ who = None
    /\ csvResultUrl = None
    /\ csvPreview = <<>>
    /\ metrics = <<>>
    /\ derived = Aggregate(<<>>)
    /\ sb = Some("client")
    /\ token = Some("t1")
    /\ envMissing = FALSE
    /\ calls = {}
    /\ issued = 0
    /\ surfaced = "nothing"

InitPredict == SignedIn /\ NoHistory

\* Responses of every length up to MaxOutputs, of alternating values.
AnyResponses ==
    {[i \in 1..n |-> IF i % 2 = 1 THEN 7000 ELSE 9000] : n \in 0..MaxOutputs}

\* The Rows texts typed between predictions.
PredictRowTexts == {<<"2">>, <<"3">>, <<"-", "1">>}

NextPredict ==
    \/ PredictClick /\ Record("predict", <<>>, <<>>)
    \/ \E c \in Pending("predict"), outs \in AnyResponses :
          PredictOk(c, outs) /\ Record("predictOk", outs, <<>>)
    \/ \E c \in calls : PredictFail(c) /\ Failed("predict")
    \/ \E text \in PredictRowTexts : SetRows(text) /\ Forget
    \/ \E text \in NetColTexts : SetColumns(text) /\ Forget
    \/ \E j \in {0, 1}, val \in CellValues : SetCell(0, j, val) /\ Forget

SpecPredict == InitPredict /\ [][NextPredict]_vars

----------------------------------------------------------------------------
(* CSV uploads on their own: the user, signed in, selects files, also while *)
(* an upload is in flight.  The server's answer to an upload names the      *)
(* upload, so that the link and the preview tell which upload they are of.  *)

\* The CSV text the server answers upload id with: a header and one row
\* holding the upload's number.
AnswerOf(id) == <<"i", "d", "\n", Digits[id + 1], "\n">>

UploadFiles == {"batch.csv", "more.csv", "last.csv"}

InitCsv == SignedIn /\ NoHistory

NextCsv ==
    \/ \E file \in UploadFiles : CsvSelect(file) /\ Record("csv", <<>>, <<>>)
    \/ \E c \in calls : CsvOk(c, AnswerOf(c.id)) /\ Forget
    \/ \E c \in calls : CsvTextDone(c) /\ Forget
    \/ \E c \in calls : CsvFail(c) /\ Failed("csv")
    \/ \E text \in NetRowTexts : SetRows(text) /\ Forget

SpecCsv == InitCsv /\ [][NextCsv]_vars

----------------------------------------------------------------------------
(* The health answers on their own: the page has its session, the startup   *)
(* /health call is still in flight, and the user edits the matrix and asks  *)
(* for the health by hand before and after it is answered.                 *)

AwaitingHealth ==
    /\ rows = DefaultRows
    /\ featureCols = DefaultFeatureCols
    /\ inputs = ZeroMatrix(3, 3)
    /\ outputs = None
    /\ health = None
    /\ who = None
    /\ csvResultUrl = None
    /\ csvPreview = <<>>
    /\ metrics = <<>>
    /\ derived = Aggregate(<<>>)
    /\ sb = Some("client")
    /\ token = Some("t1")
    /\ envMissing = FALSE
    /\ calls = {Call(0, "autoHealth", <<>>)}
    /\ issued = 0
    /\ surfaced = "nothing"

InitHealth == AwaitingHealth /\ NoHistory

\* feature_columns of a /health response: absent, empty, of two names and of
\* as many names as the page starts with.
HealthAnswers == HealthColumns \cup {Some(<<<<"a">>, <<"b">>, <<"c">>>>)}

NextHealth ==
    \/ \E fc \in HealthAnswers : HealthAutoOk(fc) /\ Record("autoHealth", fc, inputs)
    \/ HealthAutoFail /\ Failed("autoHealth")
    \/ HealthClick /\ Forget
    \/ \E c \in calls, fc \in HealthAnswers : HealthOk(c, fc) /\ Record("health", fc, inputs)
    \/ \E c \in calls : HealthFail(c) /\ Failed("health")
    \/ \E text \in PredictRowTexts : SetRows(text) /\ Forget
    \/ \E text \in NetColTexts : SetColumns(text) /\ Forget
    \/ \E val \in CellValues : SetCell(0, 0, val) /\ Forget

SpecHealth == InitHealth /\ [][NextHealth]_vars

----------------------------------------------------------------------------
(* Properties of the input matrix. *)

\* Whether the matrix m has a cell at row i, column j (counted from 1).
Existed(m, i, j) == i \in 1..Len(m) /\ j \in 1..Len(m[i])

\* Every cell of new that old had keeps old's value; every other cell is 0.
PreservedOrZero(old, new) ==
    \A i \in 1..Len(new) : \A j \in 1..Len(new[i]) :
        new[i][j] = IF Existed(old, i, j) THEN old[i][j] ELSE 0

\* Every cell of new that old had keeps old's value.
Preserved(old, new) ==
    \A i \in 1..Len(new) : \A j \in 1..Len(new[i]) :
        Existed(old, i, j) => new[i][j] = old[i][j]

IsRowCount(n) == n # NaN /\ n >= 0

\* The matrix always has ToLength(rows) rows of featureCols.length cells.
MatrixSizedToLength ==
    /\ Len(inputs) = ToLength(rows)
    /\ \A i \in 1..Len(inputs) : Len(inputs[i]) = Len(featureCols)

\* C1: the input matrix always has exactly rowCount rows, and every row has
\* exactly len(FeatureColumnSet) cells.
C1_MatrixSized ==
    /\ Len(inputs) = rows
    /\ \A i \in 1..Len(inputs) : Len(inputs[i]) = Len(featureCols)

\* C2: after setRowCount(n) with n >= 0 the matrix has n rows, every cell that
\* existed before keeps its value and every new cell is 0; and after
\* setRowCount(n) followed by setColumns(cols) the matrix has n rows of
\* len(cols) cells, every cell that existed before both calls keeping its value.
C2_SetRowCountReshapes ==
    /\ lastOp = "setRows" =>
          /\ IsRowCount(rows) => Len(inputs) = rows
          /\ \A i \in 1..Len(inputs) : Len(inputs[i]) = Len(featureCols)
          /\ PreservedOrZero(before, inputs)
    /\ lastOp = "setRows;setColumns" =>
          /\ IsRowCount(rows) => Len(inputs) = rows
          /\ \A i \in 1..Len(inputs) : Len(inputs[i]) = Len(featureCols)
          /\ Preserved(before, inputs)

\* C2's case: a Rows edit that dropped a row and then a Feature-columns edit
\* that added a column, with an entered value still in place.
C2_Witness ==
    /\ lastOp = "setRows;setColumns"
    /\ 0 < Len(inputs) /\ Len(inputs) < Len(before)
    /\ 0 < Len(before[1]) /\ Len(before[1]) < Len(inputs[1])
    /\ before[1][1] # 0
    /\ inputs[1][1] = before[1][1]

\* The column names of a text, read off the positions of its commas: the
\* pieces between two neighbouring commas (or a comma and an end of the text)
\* that hold a non-blank character, each cut to its first and last non-blank
\* character, in the order of the text.
CommaPos(t) == {x \in 1..Len(t) : t[x] = ","}

SetMin(S) == CHOOSE x \in S : \A y \in S : x <= y

SetMax(S) == CHOOSE x \in S : \A y \in S : x >= y

PieceEnd(t, a) == SetMin({x \in CommaPos(t) \cup {Len(t) + 1} : x > a})

NonBlank(t, a) == {x \in (a + 1)..(PieceEnd(t, a) - 1) : t[x] \notin Whitespace}

KeptPieces(t) == {a \in CommaPos(t) \cup {0} : NonBlank(t, a) # {}}

ColumnNames(t) ==
    [r \in 1..Cardinality(KeptPieces(t)) |->
        LET a == CHOOSE x \in KeptPieces(t) :
                     Cardinality({y \in KeptPieces(t) : y < x}) = r - 1
        IN  SubSeq(t, SetMin(NonBlank(t, a)), SetMax(NonBlank(t, a)))]

\* The specification's scenario with its own numbers: 2 rows, columns f1,f2,
\* cell (0,0) = 1.5, then columns f1,f2,f3.
C3_Scenario ==
    LET text == F1 \o <<",">> \o F2 \o <<",">> \o F3
        m1   == CellEdit(ZeroMatrix(2, 2), 0, 0, 1500)
        cols == ParseColumns(text)
        m2   == SizedInputs(m1, 2, Len(cols), 2, 2)
    IN  /\ cols = <<F1, F2, F3>>
        /\ m2 = <<<<1500, 0, 0>>, <<0, 0, 0>>>>

\* C3: setColumns(names) sets FeatureColumnSet to the comma-split, trimmed,
\* non-empty entries of the text in order, and reshapes the matrix column-wise:
\* the row count stays, every row gets len(FeatureColumnSet) cells, surviving
\* cells keep their values and new cells are 0; so does the scenario.
C3_SetColumns ==
    /\ []C3_Scenario
    /\ [][lastOp' \in {"setColumns", "setRows;setColumns"} =>
            /\ featureCols' = ColumnNames(lastArg')
            /\ rows' = rows
            /\ Len(inputs') = Len(inputs)
            /\ \A i \in 1..Len(inputs') : Len(inputs'[i]) = Len(featureCols')
            /\ PreservedOrZero(inputs, inputs')]_vars

\* C3's case: the scenario reached on the page: columns f1,f2 with 1.5 in
\* cell (0,0), the rows cut to two, and a third column added by typing
\* f1,f2,f3.
C3_Witness ==
    /\ lastOp = "setRows;setColumns"
    /\ lastArg = F1 \o <<",">> \o F2 \o <<",">> \o F3
    /\ featureCols = <<F1, F2, F3>>
    /\ before = <<<<1500, 200>>, <<400, 500>>, <<700, 800>>>>
    /\ inputs = <<<<1500, 200, 0>>, <<400, 500, 0>>>>

\* C4: setCell(row, col, value) changes exactly the cell at (row, col) to value
\* and leaves every other cell, the row count, the column set and the outputs
\* unchanged; at coordinates outside the matrix it changes nothing of the page.
C4_SetCellFrame ==
    [][lastOp' = "setCell" =>
        LET i   == lastArg'[1] + 1
            j   == lastArg'[2] + 1
            val == lastArg'[3]
        IN  /\ rows' = rows
            /\ featureCols' = featureCols
            /\ outputs' = outputs
            /\ IF Existed(inputs, i, j)
               THEN /\ Len(inputs') = Len(inputs)
                    /\ \A r \in 1..Len(inputs) : Len(inputs'[r]) = Len(inputs[r])
                    /\ inputs'[i][j] = val
                    /\ \A r \in 1..Len(inputs) : \A c \in 1..Len(inputs[r]) :
                          <<r, c>> # <<i, j>> => inputs'[r][c] = inputs[r][c]
               ELSE pageVars' = pageVars]_vars

\* C4's case: 0.5 typed into cell (1,2) of a matrix that already held 0.5 in
\* cell (0,0), beside the outputs of a prediction.
C4_Witness ==
    /\ lastOp = "setCell"
    /\ lastArg = <<1, 2, 500>>
    /\ inputs = <<<<500, 0, 0>>, <<0, 0, 500>>, <<0, 0, 0>>>>
    /\ outputs = Some(<<7000, 7000, 7000>>)

----------------------------------------------------------------------------
(* Properties of the KPIs. *)

\* How many members of arr are below x, and how many are not above it.
Below(arr, x) == Cardinality({k \in 1..Len(arr) : arr[k] < x})

UpTo(arr, x) == Cardinality({k \in 1..Len(arr) : arr[k] <= x})

\* x is what stands at index idx (from 0) of arr sorted ascending.
IsRanked(arr, idx, x) ==
    /\ \E k \in 1..Len(arr) : arr[k] = x
    /\ Below(arr, x) <= idx
    /\ idx < UpTo(arr, x)

InUnit(q) == 0 <= q.num /\ q.num <= q.den

\* C5: the percentile of an empty array is 0 for every q; for a quantile in
\* [0,1] the percentile of a non-empty array is the member at index
\* floor((n-1)*q) of its ascending sort; the percentile of [5] is 5 for
\* every q in [0,1], and the 0.95 percentile of [1,2,3,4,5] is 4.
C5_Percentile ==
    result # None =>
        LET arr == lastArg.arr
            q   == lastArg.q
            n   == Len(arr)
        IN  /\ n = 0 => result[1] = 0
            /\ n > 0 /\ InUnit(q) =>
                   IsRanked(arr, ((n - 1) * q.num) \div q.den, result[1])
            /\ arr = <<5>> /\ InUnit(q) => result[1] = 5
            /\ arr = <<1, 2, 3, 4, 5>> /\ q = Q95 => result[1] = 4

\* The 0.95 percentile of the five values, given out of order, is 4.
C5_Witness ==
    /\ lastOp = "p"
    /\ lastArg = [arr |-> <<5, 3, 1, 4, 2>>, q |-> Q95]
    /\ result = Some(4)

\* The sum of the costs of the records of ms, a record without one adding 0.
RECURSIVE CostUpTo(_, _)
CostUpTo(ms, k) ==
    IF k = 0 THEN 0
    ELSE CostUpTo(ms, k - 1) + (IF ms[k].cost_usd = None THEN 0 ELSE ms[k].cost_usd[1])

\* The latencies of ms, a record without one counting 0.
LatenciesOf(ms) ==
    [k \in 1..Len(ms) |-> IF ms[k].latency_ms = None THEN 0 ELSE ms[k].latency_ms[1]]

\* The records of the specification's example.
ExampleRecords ==
    <<[created_at |-> Noon, latency_ms |-> Some(100), cost_usd |-> None],
      [created_at |-> Noon, latency_ms |-> None, cost_usd |-> None],
      [created_at |-> Noon, latency_ms |-> None, cost_usd |-> Some(2500)],
      [created_at |-> Noon, latency_ms |-> None, cost_usd |-> None]>>

\* C6: over every stored snapshot, the empty one included, the request count
\* is the number of records, the cost is the sum of the costs with a missing
\* cost counted as 0, and the p95 latency is the member at index
\* floor((n-1)*0.95) of the sorted latencies with a missing latency counted as
\* 0 (0 for the empty snapshot); the example records give 4, 2.5 and 0.
C6_Aggregate ==
    LET k == Kpis(metrics)
        n == Len(metrics)
    IN  /\ k.total = n
        /\ k.totalCost = CostUpTo(metrics, n)
        /\ n = 0 => k.p95All = 0
        /\ n > 0 => IsRanked(LatenciesOf(metrics), ((n - 1) * 95) \div 100, k.p95All)
        /\ metrics = ExampleRecords =>
               k = [p95All |-> 0, total |-> 4, totalCost |-> 2500]

\* The log query has answered with the example records.
C6_Witness ==
    /\ metrics = ExampleRecords
    /\ Pending("logs") = {}
    /\ Kpis(metrics).total = 4

----------------------------------------------------------------------------
(* Properties of the calls. *)

\* C7: a Predict with a token always adds a call of its own to those in
\* flight, whatever is already in flight, and once a prediction has landed
\* the outputs slot holds the response that landed last.
C7_LastResolvedWins ==
    /\ [](resolved # <<>> => outputs = Some(resolved[Len(resolved)].outputs))
    /\ [][lastOp' = "predict" /\ token # None =>
            /\ Pending("predict") \subseteq Pending("predict")'
            /\ Cardinality(Pending("predict")') = Cardinality(Pending("predict")) + 1
         ]_vars

\* Two predictions were in flight together; the second landed first, the
\* first landed last with a different response, and the slot holds the first's.
C7_Witness ==
    /\ Len(resolved) = 2
    /\ resolved[1].id = 2
    /\ resolved[2].id = 1
    /\ resolved[1].outputs # resolved[2].outputs
    /\ outputs = Some(resolved[2].outputs)

\* C8: stored outputs hold one number for every row of the matrix.
C8_OutputsAligned ==
    outputs # None => Len(outputs[1]) = Len(inputs)

LoginAlert == "alert: Login first."

\* C9: a Predict or a CSV upload handled without a token raises the alert,
\* issues no call and leaves outputs, csvResultUrl and csvPreview alone.
C9_NoTokenShortCircuit ==
    [][lastOp' \in {"predict", "csv"} /\ token = None =>
          /\ surfaced' = LoginAlert
          /\ calls' = calls
          /\ issued' = issued
          /\ outputs' = outputs
          /\ csvResultUrl' = csvResultUrl
          /\ csvPreview' = csvPreview
      ]_vars

\* After a prediction was shown and the user signed out, a file was chosen
\* for upload: the alert was raised, nothing is in flight, the outputs stayed.
C9_Witness ==
    /\ lastOp = "csv"
    /\ token = None
    /\ surfaced = LoginAlert
    /\ calls = {}
    /\ outputs # None
    /\ csvResultUrl = None
    /\ csvPreview = <<>>

\* The failure steps: the failed call leaves the calls in flight, no call is
\* issued, and the page state stays as it was.
FailureLeavesState ==
    /\ pageVars' = pageVars
    /\ issued' = issued
    /\ calls' \subseteq calls
    /\ Cardinality(calls') = Cardinality(calls) - 1

\* The failures nothing shows: the startup health check (page.tsx:380-382)
\* and the log query (page.tsx:428).
Silent == {"autoHealth", "logs"}

\* C10 as stated: every failure is not retried, leaves the page state as it
\* was, and surfaces as an unhandled rejection or an alert.
C10_EveryFailureSurfaces ==
    [][lastOp' = "fail" =>
          /\ FailureLeavesState
          /\ surfaced' \in {"rejection", "alert: error.message"}
      ]_vars

\* C10 amended: every failure is not retried and leaves the page state as it
\* was; a failed sign-in surfaces as an alert, a failed health check by
\* button, identity check, predict or CSV upload as an unhandled rejection,
\* and a failed startup health check or log query surfaces as nothing.
C10_FailuresLeaveState ==
    [][lastOp' = "fail" =>
          /\ FailureLeavesState
          /\ surfaced' = IF lastArg' \in Silent THEN "nothing"
                         ELSE IF lastArg' = "signIn" THEN "alert: error.message"
                         ELSE "rejection"
      ]_vars

\* A prediction was shown, a second Predict failed: the rejection surfaced,
\* nothing is in flight and the outputs are the first prediction's.
C10_Witness ==
    /\ lastOp = "fail"
    /\ lastArg = "predict"
    /\ surfaced = "rejection"
    /\ calls = {}
    /\ Len(resolved) = 1
    /\ outputs = Some(resolved[1].outputs)

----------------------------------------------------------------------------
(* Properties of the API helpers. *)

\* The part of a message after its first blank.
RECURSIVE AfterBlank(_)
AfterBlank(m) ==
    IF m = <<>> THEN <<>>
    ELSE IF Head(m) = " " THEN Tail(m)
    ELSE AfterBlank(Tail(m))

\* C11: for a response that arrived, apiJson and apiCsv return exactly when
\* the status is 2xx and then return the response's payload; otherwise they
\* throw an error whose message reads as the status code followed by the body
\* text; apiJson's request carries the Authorization header, with the bearer
\* token, exactly when it was given a (non-empty) token.
C11_ApiOutcome ==
    result # None =>
        LET call == lastArg
            out  == result[1].outcome
            req  == result[1].request
            auth == {h \in req.headers : h[1] = "Authorization"}
        IN  /\ call.res # None =>
                LET res == call.res[1]
                IN  /\ out.kind = "returned" <=> res.status \in 200..299
                    /\ out.kind \in {"returned", "thrown"}
                    /\ out.kind = "returned" =>
                           out.value \in {[json |-> res.text], [blob |-> res.text]}
                    /\ out.kind = "thrown" =>
                           /\ parseInt(out.value) = res.status
                           /\ AfterBlank(out.value) = res.text
            /\ call.fn = "apiJson" =>
                /\ auth # {} <=> (call.token # None /\ call.token # Some(""))
                /\ \A h \in auth : h[2] = <<"Bearer ", call.token[1]>>

\* apiJson was called with a token and answered 404 "no": it threw "404 no"
\* and had sent the bearer header.
C11_Witness ==
    /\ lastOp = "fetch"
    /\ lastArg.fn = "apiJson"
    /\ lastArg.token = Some("t1")
    /\ lastArg.res = Some([status |-> 404, text |-> <<"n", "o">>])
    /\ result[1].outcome = Thrown(<<"4", "0", "4", " ", "n", "o">>)
    /\ <<"Authorization", <<"Bearer ", "t1">>>> \in result[1].request.headers

----------------------------------------------------------------------------
(* Properties of the aggregation. *)

UtcDayNumber(ts) ==
    CHOOSE n \in (ts.date - 2)..(ts.date + 2) :
        /\ 24 * n <= 24 * ts.date + ts.hour - ts.offset
        /\ 24 * ts.date + ts.hour - ts.offset < 24 * (n + 1)

\* The day a key of May 2024 names.
KeyDayNumber(key) == 10 * DigitVal(key[9]) + DigitVal(key[10])

\* The records of ms that fall on UTC day n.
OnDay(ms, n) == {i \in 1..Len(ms) : UtcDayNumber(ms[i].created_at) = n}

RECURSIVE CostOnDay(_, _, _)
CostOnDay(ms, k, n) ==
    IF k = 0 THEN 0
    ELSE CostOnDay(ms, k - 1, n)
             + (IF k \in OnDay(ms, n) /\ ms[k].cost_usd # None
                THEN ms[k].cost_usd[1] ELSE 0)

\* v is the 0.95 nearest-rank percentile of the latencies of the records I.
IsP95Of(ms, I, v) ==
    LET lat == LatenciesOf(ms)
        idx == ((Cardinality(I) - 1) * 95) \div 100
    IN  /\ \E i \in I : lat[i] = v
        /\ Cardinality({i \in I : lat[i] < v}) <= idx
        /\ idx < Cardinality({i \in I : lat[i] <= v})

\* C13: the three per-day lists name the same days, which are exactly the UTC
\* days of the records' created_at, in ascending order and each once; for
\* each day the count is the number of its records, the p95 the nearest-rank
\* 0.95 percentile of their latencies (missing as 0) and the cost the sum of
\* their costs (missing as 0).
C13_DailyBuckets ==
    LET d == derived.daily
        n == Len(d.dailyReqs)
    IN  /\ Len(d.dailyP95) = n
        /\ Len(d.dailyCost) = n
        /\ \A k \in 1..n :
               LET key == d.dailyReqs[k].day
                   day == KeyDayNumber(key)
               IN  /\ SubSeq(key, 1, 8) = <<"2", "0", "2", "4", "-", "0", "5", "-">>
                   /\ Len(key) = 10
                   /\ d.dailyP95[k].day = key
                   /\ d.dailyCost[k].day = key
                   /\ OnDay(metrics, day) # {}
                   /\ d.dailyReqs[k].reqs = Cardinality(OnDay(metrics, day))
                   /\ IsP95Of(metrics, OnDay(metrics, day), d.dailyP95[k].p95)
                   /\ d.dailyCost[k].cost = CostOnDay(metrics, Len(metrics), day)
                   /\ \A l \in (k + 1)..n : day < KeyDayNumber(d.dailyReqs[l].day)
        /\ \A i \in 1..Len(metrics) : \E k \in 1..n :
               KeyDayNumber(d.dailyReqs[k].day) = UtcDayNumber(metrics[i].created_at)

\* Three records arrived newest first: one at noon UTC on the 10th, one late
\* on the 9th west of UTC (the 10th in UTC), one early on the 9th east of UTC
\* (the 8th in UTC).  They are filed under the 8th and the 10th.
C13_Witness ==
    /\ metrics = <<[created_at |-> Noon, latency_ms |-> Some(100), cost_usd |-> None],
                   [created_at |-> Stamp(9, 23, 0 - 2), latency_ms |-> None,
                    cost_usd |-> Some(2500)],
                   [created_at |-> Stamp(9, 1, 2), latency_ms |-> Some(100),
                    cost_usd |-> Some(2500)]>>
    /\ derived.daily.dailyReqs =
           <<[day |-> IsoDay(8), reqs |-> 1], [day |-> IsoDay(10), reqs |-> 2]>>
    /\ derived.daily.dailyP95 =
           <<[day |-> IsoDay(8), p95 |-> 100], [day |-> IsoDay(10), p95 |-> 0]>>
    /\ derived.daily.dailyCost =
           <<[day |-> IsoDay(8), cost |-> 2500], [day |-> IsoDay(10), cost |-> 2500]>>

----------------------------------------------------------------------------
(* Properties of the CSV preview. *)

BreakPos(t) == {x \in 1..Len(t) : t[x] = "\n"}

\* The line that starts after position a ends before the next line feed.
LineEnd(t, a) == SetMin({x \in BreakPos(t) \cup {Len(t) + 1} : x > a})

\* Its last character: a carriage return right before the line feed is not
\* part of it.
LineLast(t, a) ==
    LET e == LineEnd(t, a)
    IN  IF e <= Len(t) /\ e - 1 > a /\ t[e - 1] = "\r" THEN e - 2 ELSE e - 1

KeptLines(t) == {a \in BreakPos(t) \cup {0} : LineLast(t, a) > a}

\* The r-th member of a set of positions.
Ranked(S, r) == CHOOSE x \in S : Cardinality({y \in S : y < x}) = r - 1

\* The fields of a line: every piece between commas, without the whitespace
\* around it.
FieldsOf(ln) ==
    [r \in 1..(Cardinality(CommaPos(ln)) + 1) |->
        LET a == Ranked(CommaPos(ln) \cup {0}, r)
        IN  IF NonBlank(ln, a) = {} THEN <<>>
            ELSE SubSeq(ln, SetMin(NonBlank(ln, a)), SetMax(NonBlank(ln, a)))]

\* The non-empty lines of t, in order, each as its fields.
ParsedLines(t) ==
    [r \in 1..Cardinality(KeptLines(t)) |->
        LET a == Ranked(KeptLines(t), r)
        IN  FieldsOf(SubSeq(t, a + 1, LineLast(t, a)))]

\* C14: the preview of a text holds the fields of its first 26 non-empty
\* lines (split on LF or CRLF, each line split on commas, each field
\* trimmed); the table shows the first as headers and the others, never more
\* than 25, as data rows; "a,b\n1,2\n3,4\n" gives headers [a,b] and the rows
\* [1,2] and [3,4].
C14_CsvPreview ==
    result # None =>
        LET all     == ParsedLines(lastArg)
            preview == result[1].preview
            table   == result[1].table
        IN  /\ Len(preview) = IF Len(all) < 26 THEN Len(all) ELSE 26
            /\ \A k \in 1..Len(preview) : preview[k] = all[k]
            /\ table = None <=> Len(all) = 0
            /\ table # None =>
                   /\ table[1].headers = all[1]
                   /\ Len(table[1].rows) = IF Len(all) - 1 < 25 THEN Len(all) - 1 ELSE 25
                   /\ \A k \in 1..Len(table[1].rows) : table[1].rows[k] = all[k + 1]
            /\ lastArg = ExampleCsv =>
                   table = Some([headers |-> <<<<"a">>, <<"b">>>>,
                                 rows    |-> <<<<<<"1">>, <<"2">>>>, <<<<"3">>, <<"4">>>>>>])

\* The long text has been parsed: the table shows 25 of its data rows.
C14_Witness ==
    /\ lastOp = "preview"
    /\ Len(ParsedLines(lastArg)) > 26
    /\ Len(result[1].preview) = 26
    /\ Len(result[1].table[1].rows) = 25
    /\ result[1].table[1].rows[25] = <<<<"1">>>>

----------------------------------------------------------------------------
(* Properties of a prediction's request and of its outputs on display. *)

\* The landing of a response stores its outputs, whatever their number, shows
\* no alert and no rejection, and changes nothing else on the page.
OutputsStored ==
    [][lastOp' = "predictOk" =>
          /\ outputs' = Some(lastArg')
          /\ surfaced' = "nothing"
          /\ matVars' = matVars
          /\ authVars' = authVars
          /\ <<health, who, csvResultUrl, csvPreview, metrics>>'
                 = <<health, who, csvResultUrl, csvPreview, metrics>>
      ]_vars

\* The rows on display while outputs are stored.
Shown == DisplayRows(inputs, outputs[1])

\* C15 as stated: outputs of any length are stored without an error, and when
\* their number differs from the number of matrix rows the rows on display
\* have differing cell counts.
C15_RaggedOnMismatch ==
    /\ OutputsStored
    /\ [](outputs # None /\ Len(outputs[1]) # Len(inputs) =>
             \E a, b \in 1..Len(Shown) : Len(Shown[a]) # Len(Shown[b]))

\* C15 amended: outputs of any length are stored without an error; there is
\* one row on display for every matrix row and every one of them has the
\* row's cells and one prediction cell, which holds the output at the row's
\* index or is blank when there is none; outputs past the last matrix row are
\* not on display.
C15_OutputsPadded ==
    /\ OutputsStored
    /\ [](outputs # None =>
             /\ Len(Shown) = Len(inputs)
             /\ \A a \in 1..Len(Shown) :
                    /\ Len(Shown[a]) = Len(featureCols) + 1
                    /\ SubSeq(Shown[a], 1, Len(featureCols)) = inputs[a]
                    /\ Shown[a][Len(featureCols) + 1] =
                           IF a <= Len(outputs[1]) THEN outputs[1][a] ELSE Blank)

\* A response with two outputs has landed beside a matrix of three rows: the
\* third row on display ends in a blank cell and is as long as the others.
C15_Witness ==
    /\ lastOp = "predictOk"
    /\ outputs = Some(<<7000, 9000>>)
    /\ Len(inputs) = 3
    /\ Shown[3] = <<0, 0, 0, Blank>>
    /\ Len(Shown[1]) = Len(Shown[3])

\* C16: every predict request that is sent carries the matrix as it stood when
\* Predict was triggered, and that matrix has exactly rows rows of
\* Len(featureCols) cells each.
C16_PredictBody ==
    [][lastOp' = "predict" /\ token # None =>
          \E c \in calls' \ calls :
              /\ c.kind = "predict"
              /\ c.body.inputs = inputs
              /\ Len(c.body.inputs) = rows
              /\ \A i \in 1..Len(c.body.inputs) :
                     Len(c.body.inputs[i]) = Len(featureCols)
      ]_vars

\* C18: after any sequence of Rows edits the row count is an integer within
\* the range the input declares, and so never negative.
C18_RowsClamped == rows \in RowsMin..RowsMax

----------------------------------------------------------------------------
(* Properties of the usage-log fetch and of calls in flight. *)

\* C17: the usage log is queried once, in the step that makes the client
\* available, and the client is made available once; no other step starts a
\* query; the snapshot changes only when the query is answered; the derived
\* metrics always equal the aggregate of the snapshot and change only when the
\* snapshot changes.
C17_LogsFetchedOnce ==
    /\ [](derived = Aggregate(metrics))
    /\ [][/\ derived' # derived => metrics' # metrics
          /\ sb # None => sb' = sb
          /\ sb = None /\ sb' # None => Cardinality(Pending("logs")') = 1
          /\ ~(sb = None /\ sb' # None) => Pending("logs")' \subseteq Pending("logs")
          /\ metrics' # metrics => Pending("logs") # {} /\ Pending("logs")' = {}
         ]_vars

\* The log query has been answered with a record, and since then the user has
\* signed in and a prediction has landed: the snapshot and the derived metrics
\* are those of the one query and no query is in flight.
C17_Witness ==
    /\ Len(metrics) = 1
    /\ metrics[1].latency_ms = Some(40)
    /\ derived.kpis.total = 1
    /\ Len(derived.daily.dailyReqs) = 1
    /\ derived.daily.dailyReqs[1].reqs = 1
    /\ issued = 2
    /\ token # None
    /\ lastOp = "predictOk"
    /\ Pending("logs") = {}

\* The step has resolved call c: its response has been applied, or its
\* failure has been recorded.
ResolvedBy(c) ==
    \/ lastOp' = "fail" /\ lastArg' = c.kind
    \/ lastOp' = "fail" /\ lastArg' = "csv" /\ c.kind = "csvText"
    \/ /\ c.kind = "predict"
       /\ lastOp' = "predictOk"
       /\ resolved' # <<>>
       /\ resolved'[Len(resolved')].id = c.id
       /\ outputs' = Some(resolved'[Len(resolved')].outputs)
    \/ c.kind \in {"health", "autoHealth"} /\ health' # None
    \/ c.kind = "whoami" /\ who' # None
    \/ c.kind = "csv" /\ Pending("csvText")' # {}
    \/ c.kind = "csvText" /\ csvResultUrl' # None
    \/ c.kind = "logs" /\ metrics' \in NetSnapshots
    \/ c.kind = "createClient" /\ sb' # None
    \/ c.kind \in {"getSession", "signIn"} /\ token' \in Sessions
    \/ c.kind = "signOut" /\ token' = None

\* C19: a call in flight leaves only by its own resolution, one call a step:
\* signing out, editing or resizing the matrix and issuing another call remove
\* none; the response of a prediction in flight can land in every state, and
\* when it lands the outputs are those of the response, with or without a
\* token.
C19_NotCancellable ==
    /\ [][/\ Cardinality(calls \ calls') <= 1
          /\ \A c \in calls \ calls' : ResolvedBy(c)
          /\ issued' # issued => calls \subseteq calls'
          /\ matVars' # matVars /\ Pending("autoHealth")' = Pending("autoHealth") =>
                 calls \subseteq calls'
         ]_vars
    /\ [](\A c \in Pending("predict") :
             ENABLED (\E outs \in PredictResponses(c) :
                          PredictOk(c, outs) /\ Applied(c, outs)))

\* A prediction was requested, the user signed out, and then the response
\* landed: there is no token and the outputs are those of the response.
C19_Witness ==
    /\ lastOp = "predictOk"
    /\ token = None
    /\ Pending("signOut") = {}
    /\ resolved # <<>>
    /\ outputs = Some(resolved[Len(resolved)].outputs)

----------------------------------------------------------------------------
(* Properties of the session. *)

\* C20: a rejected sign-in raises the alert with the provider's message,
\* starts no call, and leaves the token, null when no other sign-in has
\* succeeded meanwhile, and the rest of the page as they were; the token
\* becomes non-null only in a step where the provider answers a session read
\* or a sign-in with a session, and a sign-out reported by the provider makes
\* it null, which nothing else does to a token.
C20_SignInFailure ==
    [][/\ lastOp' = "fail" /\ lastArg' = "signIn" =>
             /\ surfaced' = "alert: error.message"
             /\ pageVars' = pageVars
             /\ issued' = issued
             /\ calls' \subseteq calls
             /\ Cardinality(Pending("signIn")') = Cardinality(Pending("signIn")) - 1
       /\ token' # None /\ token' # token =>
             /\ token' \in Sessions
             /\ \E c \in calls \ calls' : c.kind \in {"getSession", "signIn"}
       /\ Pending("signOut") \ calls' # {} => token' = None
       /\ token # None /\ token' = None => Pending("signOut") \ calls' # {}
      ]_vars

\* The only sign-in attempted was rejected: the alert is up, there is no
\* token, nothing is in flight for the session and nothing was stored.
C20_Witness ==
    /\ lastOp = "fail"
    /\ lastArg = "signIn"
    /\ surfaced = "alert: error.message"
    /\ token = None
    /\ issued = 1
    /\ Pending("signIn") = {}
    /\ outputs = None

----------------------------------------------------------------------------
(* Properties of a page whose environment is not configured. *)

\* The environment is read once: it never changes, and the warning is shown
\* in every state of a page without it.
EnvironmentFixed ==
    /\ [][envMissing' = envMissing]_vars
    /\ [](envMissing => BannerShown)

----------------------------------------------------------------------------
(* Properties of the page after a failure. *)

\* Which of the user's actions can be taken: signing in and out, the health
\* and identity checks, and a prediction and an upload that reach the
\* network.  The edits of the matrix have no guard and can always be taken.
Interactive ==
    [signIn   |-> ENABLED (SignInClick /\ Forget),
     signOut  |-> ENABLED (SignOutClick /\ Forget),
     health   |-> ENABLED (HealthClick /\ Forget),
     whoami   |-> ENABLED (WhoamiClick /\ Forget /\ issued' = issued + 1),
     predict  |-> ENABLED (PredictClick /\ Forget /\ issued' = issued + 1),
     csv      |-> \A file \in Files :
                      ENABLED (CsvSelect(file) /\ Forget /\ issued' = issued + 1)]

\* The network calls in flight that can resolve (the reading of a received
\* blob is not one).
Resolvable ==
    {c \in calls :
        \/ c.kind = "predict" /\ ENABLED (PredictFail(c) /\ Forget)
        \/ c.kind = "health" /\ ENABLED (HealthFail(c) /\ Forget)
        \/ c.kind = "whoami" /\ ENABLED (WhoamiOk(c) /\ Forget)
        \/ c.kind = "csv" /\ ENABLED (CsvFail(c) /\ Forget)
        \/ c.kind = "signIn" /\ ENABLED (SignInOk(c) /\ Forget)
        \/ c.kind = "signOut" /\ ENABLED (SignOutDone(c) /\ Forget)
        \/ c.kind = "logs" /\ ENABLED (LogsFail /\ Forget)
        \/ c.kind = "autoHealth" /\ ENABLED (HealthAutoFail /\ Forget)
        \/ c.kind = "getSession" /\ ENABLED (GetSessionDone(None) /\ Forget)
        \/ c.kind = "createClient" /\ ENABLED (ClientCreated /\ Forget)}

\* The same, read off the page: the buttons that are rendered and enabled
\* (page.tsx:463, 491, 517, 524-527), the guards of the handlers
\* (page.tsx:389, 394, 400) and the room left for another call.
Controls ==
    [signIn   |-> token = None /\ sb # None /\ issued < MaxCalls,
     signOut  |-> token # None /\ sb # None /\ issued < MaxCalls,
     health   |-> token # None /\ issued < MaxCalls,
     whoami   |-> token # None /\ issued < MaxCalls,
     predict  |-> token # None /\ issued < MaxCalls,
     csv      |-> token # None /\ issued < MaxCalls]

\* The same, read off the calls: the provider answers a sign-in after the
\* session read that precedes it; every other call can resolve at once.
Answerable ==
    {c \in calls : /\ c.kind # "csvText"
                   /\ c.kind = "signIn" => Pending("getSession") = {}}

\* C22: after a failed call every action of the user that could be taken
\* before can still be taken, every other call in flight that could resolve
\* still can, and the page holds the data it held before.
C22_NoFatalFailure ==
    /\ [](Interactive = Controls /\ Resolvable = Answerable)
    /\ [][lastOp' = "fail" =>
              /\ Controls' = Controls
              /\ \A c \in Answerable : c \in calls' => c \in Answerable'
              /\ pageVars' = pageVars
         ]_vars

\* Signed in, with the answer of the startup health check on the page, a
\* prediction has failed: the answer is still shown, and a prediction, an
\* upload and the health check can be asked for again.
C22_Witness ==
    /\ lastOp = "fail"
    /\ lastArg = "predict"
    /\ health # None
    /\ outputs = None
    /\ token # None
    /\ issued = 1
    /\ Interactive.predict
    /\ Interactive.csv
    /\ Interactive.health

----------------------------------------------------------------------------
(* Properties of the page variants. *)

\* C23: fed the same Rows, Feature-columns and cell events from the same
\* state, the variants hold the same matrix (and so send the same request
\* body) and the same columns.
C23_VariantsAgree == result[1] = inputs

----------------------------------------------------------------------------
(* Properties of the cached client. *)

\* The runtime is a browser with a non-empty URL and a non-empty key.
Configured == lastArg.window /\ Truthy(lastArg.url) /\ Truthy(lastArg.key)

\* C24: at most one client is ever made; in a configured browser every call
\* returns the same client, the cached one, made from the URL and the key;
\* anywhere else every call throws and the cache stays unset.
C24_ClientOnce ==
    /\ before <= 1
    /\ \A n \in 1..Len(resolved) :
           IF Configured
           THEN /\ resolved[n].kind = "returned"
                /\ resolved[n].value = resolved[1].value
                /\ result = Some(resolved[n].value)
                /\ resolved[n].value.url = lastArg.url[1]
                /\ resolved[n].value.key = lastArg.key[1]
           ELSE /\ resolved[n].kind = "thrown"
                /\ result = None

\* Three calls in a configured browser have all returned the one client.
C24_Witness ==
    /\ Configured
    /\ Len(resolved) = 3
    /\ before = 1
    /\ resolved[3].kind = "returned"
    /\ resolved[3].value.id = 1
    /\ result # None

----------------------------------------------------------------------------
(* Properties of the CSV result. *)

\* C25: once no upload is in flight and no result text is being read, the
\* preview is that of the upload the download link is of.
C25_LinkMatchesPreview ==
    Pending("csv") = {} /\ Pending("csvText") = {} /\ csvResultUrl # None =>
        csvPreview = PreviewOf(AnswerOf(csvResultUrl[1].blob))

----------------------------------------------------------------------------
(* Properties of the health answers. *)

\* C26: the answer of the startup health check with a non-empty
\* feature_columns makes the columns that list, the row count 3 and the
\* matrix 3 rows of zeros as wide as the list, whatever was entered before;
\* its answer without or with an empty feature_columns, its failure, and the
\* answer and the failure of a health check by button leave row count,
\* columns and matrix as they were.
C26_HealthSync ==
    [][/\ lastOp' = "autoHealth" =>
             IF lastArg' # None /\ Len(lastArg'[1]) > 0
             THEN /\ featureCols' = lastArg'[1]
                  /\ rows' = 3
                  /\ inputs' = ZeroMatrix(3, Len(lastArg'[1]))
             ELSE matVars' = matVars
       /\ lastOp' \in {"health", "fail"} => matVars' = matVars
      ]_vars

\* The user had two rows and a value in the first cell when the startup
\* health check answered with two columns: the matrix is 3 x 2 zeros.
C26_Witness ==
    /\ lastOp = "autoHealth"
    /\ lastArg = Some(<<<<"x">>, <<"y">>>>)
    /\ Len(before) = 2
    /\ before[1][1] = 500
    /\ rows = 3
    /\ featureCols = <<<<"x">>, <<"y">>>>
    /\ inputs = ZeroMatrix(3, 2)

----------------------------------------------------------------------------
(* Properties of the Feature-columns field. *)

\* What an edit can append to the shown text without naming a column.
Suffixes == {<<",">>, <<" ">>, <<",", " ">>, <<" ", ",">>}

\* C27: every name a Feature-columns edit produces is non-empty, has no
\* blank at either end and holds no comma; parsing the comma-joined columns
\* gives the columns back; an edit whose text is the shown text followed by
\* commas and blanks only leaves the columns and the matrix as they were.
C27_ColumnsIdempotent ==
    [][lastOp' \in {"setColumns", "setRows;setColumns"} =>
          /\ \A k \in 1..Len(featureCols') :
                 LET name == featureCols'[k]
                 IN  /\ Len(name) > 0
                     /\ name[1] \notin Whitespace
                     /\ name[Len(name)] \notin Whitespace
                     /\ \A x \in 1..Len(name) : name[x] # ","
          /\ ParseColumns(JoinComma(featureCols')) = featureCols'
          /\ \A suf \in Suffixes :
                 /\ ParseColumns(JoinComma(featureCols') \o suf) = featureCols'
                 /\ lastArg' = JoinComma(featureCols) \o suf =>
                        featureCols' = featureCols /\ inputs' = inputs
      ]_vars

\* The field showed "f" over a matrix of one column with entered values and
\* the edit "f," has left both as they were.
C27_Witness ==
    /\ lastOp = "setColumns"
    /\ lastArg = <<"f", ",">>
    /\ featureCols = <<<<"f">>>>
    /\ JoinComma(featureCols) = <<"f">>
    /\ inputs = <<<<1500>>, <<400>>, <<700>>>>

----------------------------------------------------------------------------
(* Properties of the per-day lists against the totals. *)

RECURSIVE SumOver(_, _)
SumOver(list, field) ==
    IF list = <<>> THEN 0 ELSE Head(list)[field] + SumOver(Tail(list), field)

----------------------------------------------------------------------------
(* Properties of the index of the percentile. *)

\* C29: for a non-empty list and q in [0,1] the index lies within the sorted
\* list and the percentile is the member standing there; for q = 0.95 and
\* two values or more the index is at most n-2, so the percentile is one of
\* the values below the top rank, and for one value it is that value.  The
\* bounds of the index hold for every length up to MaxRank.
C29_IndexInRange ==
    /\ result # None =>
           LET arr == lastArg.arr
               q   == lastArg.q
               n   == Len(arr)
           IN  /\ n > 0 /\ InUnit(q) =>
                      /\ 0 <= RankIndex(n, q)
                      /\ RankIndex(n, q) <= n - 1
                      /\ result[1] = SortAsc(arr)[RankIndex(n, q) + 1]
                      /\ \E k \in 1..n : arr[k] = result[1]
               /\ n >= 2 /\ q = Q95 =>
                      /\ RankIndex(n, q) <= n - 2
                      /\ \E idx \in 0..(n - 2) : result[1] = SortAsc(arr)[idx + 1]
               /\ n = 1 /\ q = Q95 => result[1] = arr[1]
    /\ \A m \in 1..MaxRank :
           /\ \A q \in Quantiles : InUnit(q) => RankIndex(m, q) \in 0..(m - 1)
           /\ m >= 2 => RankIndex(m, Q95) <= m - 2

\* The 0.95 percentile of the two values 2 and 5 is the lower one.
C29_Witness ==
    /\ lastOp = "p"
    /\ lastArg.arr = <<5, 2>>
    /\ lastArg.q = Q95
    /\ result = Some(2)

\* The width of a matrix: the length of its first row, 0 when it has none.
Width(m) == IF m = <<>> THEN 0 ELSE Len(m[1])

\* C30: values removed by a shrink are not restored by a later grow.  After a
\* Rows edit to k, smaller than the row count r, followed by a Rows edit back
\* to r, rows 0..k-1 hold what they held before the pair and rows k..r-1 are
\* all zero; and after the Feature-columns field shrinks and grows back to
\* its old length, the columns created again are all zero and the others
\* hold what they held.
C30_ShrinkThenGrow ==
    /\ lastOp = "setRows;setRows" /\ Len(result[1]) < Len(before)
            /\ Len(inputs) = Len(before) =>
          \A i \in 1..Len(inputs) : \A j \in 1..Len(inputs[i]) :
              inputs[i][j] = IF i <= Len(result[1]) THEN before[i][j] ELSE 0
    /\ lastOp = "setColumns;setColumns" /\ Width(result[1]) < Width(before)
            /\ Width(inputs) = Width(before) =>
          /\ Len(inputs) = Len(before)
          /\ \A i \in 1..Len(inputs) : \A j \in 1..Len(inputs[i]) :
                inputs[i][j] = IF j <= Width(result[1]) THEN before[i][j] ELSE 0

\* C30's case: the third row of entered values was cut by a Rows edit to 2
\* and is zero after the Rows edit back to 3, and the third column was then
\* cut by a Feature-columns edit and is zero after the edit back to three
\* names.
C30_Witness ==
    /\ lastOp = "setColumns;setColumns"
    /\ Len(before) = 3 /\ before[1] = Entered[1] /\ before[3] = <<0, 0, 0>>
    /\ Width(result[1]) = 2
    /\ inputs = <<<<1500, 200, 0>>, <<400, 500, 0>>, <<0, 0, 0>>>>

====
